---- MODULE Spec2Model ----
(***************************************************************************)
(* Hivemind: mapping store (DocumentMappingManager), sync orchestrator     *)
(* (SyncOrchestrator), recovery engine (FileRecoveryService) and the       *)
(* remote listener of SharedNoteManager, as a state machine.               *)
(*                                                                         *)
(* Representation.                                                         *)
(*  - A path is the record [dir, stem, ext] of the string dir/stem.ext .   *)
(*  - A file content is the sequence of its lines (content.split('\n')).   *)
(*    A line is [k, s, id]: its kind, its fixed text and, for the lines    *)
(*    that carry a document id, that id.                                   *)
(*  - A document id doc_<Date.now()>_<random> is the record [ts, rnd].     *)
(*  - A hash value is [fn, n, of]: the 32-bit rolling hash prints a        *)
(*    decimal number (fn = "h32", n), SHA-256 prints 64 hex digits         *)
(*    (fn = "sha256", of = the hashed content; collisions are ignored),    *)
(*    and '' is fn = "empty".                                              *)
(***************************************************************************)
EXTENDS Integers, Sequences, FiniteSets, TLC

VARIABLES
  clock,            \* Date.now()
  vault,            \* the local file tree: path -> [ex, c]
  mappings,         \* DocumentMappingManager.mappings (documentId -> record)
  mapOrder,         \* insertion order of the mappings Map
  settingsMappings, \* settings.documentMappings
  persisted,        \* the table as last written by the save hook
  ignoreNextChange, \* SyncOrchestrator.ignoreNextChange
  debounceTimers,   \* SyncOrchestrator.debounceTimers (path -> timer id)
  timers,           \* the timers setTimeout holds: scheduled, neither fired nor cleared
  editorBuf,        \* the text of the editor open on a file (editor.getValue())
  store,            \* the external content store (document key -> content)
  subs,             \* the listeners registered with listenToDoc
  pendingModify,    \* 'modify' notifications the vault owes for the plugin's own writes
  returned,         \* history: the ids returned by shareNewDocument so far
  lastAct,          \* history: the last operation, its arguments and outcome
  burst,            \* history: per timer key, the edits coalesced since the timer was started
  steps,            \* history: the number of operations so far
  keepsyncService,  \* KeepsyncService: [initialized, onReconnectCallbacks]
  everReady,        \* history: an initialize() of the service has succeeded
  autoSync          \* TeamAutoSyncService: its runs in flight and the team folder

storeVars == <<mappings, mapOrder, settingsMappings, persisted>>

orchVars == <<ignoreNextChange, debounceTimers, timers>>

\* the services outside the sync of shared notes
ksVars == <<keepsyncService, everReady, autoSync>>

vars == <<clock, vault, mappings, mapOrder, settingsMappings, persisted, ignoreNextChange,
          debounceTimers, timers, editorBuf, store, subs, pendingModify, returned, lastAct,
          burst, steps, keepsyncService, everReady, autoSync>>

----------------------------------------------------------------------------
(* Bounds *)

MaxClock == 2
MaxStoreSteps == 3
MaxSyncSteps == 6
MaxTimers == 4
MaxPending == 2
MaxRecSteps == 5

MaxStartSteps == 3

MaxKeepsyncSteps == 5

MaxCallbacks == 2

MaxContentSteps == 5

MaxSettingsSteps == 4

MaxLines == 3

MaxTagSteps == 2

MaxPathSteps == 6

MaxEditSteps == 4
MaxFailSteps == 5
MaxRestartSteps == 4
MaxAutoSteps == 8
MaxRuns == 2

----------------------------------------------------------------------------
(* Paths *)

Path(dir, stem, ext) == [dir |-> dir, stem |-> stem, ext |-> ext]

\* '' or undefined
NoPath == Path("", "", "")

TodoMd == Path("Notes", "Todo", "md")
Todo2Md == Path("Notes", "Todo2", "md")
ArchiveTodo2Md == Path("Archive", "Todo2", "md")
TodoTxt == Path("Notes", "Todo", "txt")

InboxNoteMd == Path("Inbox", "Note", "md")

Paths == {TodoMd, Todo2Md, ArchiveTodo2Md, TodoTxt, InboxNoteMd}

\* path.split('/') last part with its extension stripped
getBasename(path) == path.stem

\* TFile.basename and TFile.extension
FileBasename(path) == path.stem

FileExtension(path) == path.ext

----------------------------------------------------------------------------
(* Document ids *)

NoId == [ts |-> 0, rnd |-> 0]

\* `doc_${Date.now()}_${Math.random().toString(36).substring(2, 11)}`
generateDocumentId(now, rnd) == [ts |-> now, rnd |-> rnd]

\* the values Math.random() takes
Rands == {0, 1}

\* ids minted by team mates, which reach this user through join
ForeignIds == {generateDocumentId(1, r) : r \in Rands}

Teams == {"t1", "t2"}

UserId == "u1"

\* an optional field that is not set
Absent == "undefined"

----------------------------------------------------------------------------
(* Contents *)

Text(s) == [k |-> "text", s |-> s, id |-> NoId]

Delim == Text("---")

Blank == Text("")

\* `hivemind-id: ${documentId}`
TagLine(id) == [k |-> "tag", s |-> "hivemind-id: ", id |-> id]

\* `Document ID: ${mapping.documentId}`
DocIdLine(id) == [k |-> "ref", s |-> "Document ID: ", id |-> id]

\* the empty string: ''.split('\n') is ['']
EmptyContent == <<Blank>>

Abc == <<Text("abc")>>

Xyz == <<Text("xyz")>>

NoFile == [ex |-> FALSE, c |-> EmptyContent]

File(c) == [ex |-> TRUE, c |-> c]

\* the handlers of TeamAutoSyncService that may be in flight at once
Runs == 1..MaxRuns

\* a handler that is not running
IdleRun == [pc |-> "idle", kind |-> "none", todo |-> << >>, path |-> NoPath]

\* no handler runs and the team folder holds no file
NoAutoSync == [runs |-> [r \in Runs |-> IdleRun], files |-> {}, created |-> {}]

\* the UTF-16 code units of the fixed texts
Chars(s) ==
  CASE s = "" -> << >>
    [] s = "abc" -> <<97, 98, 99>>
    [] s = "xyz" -> <<120, 121, 122>>
    [] s = "---" -> <<45, 45, 45>>
    [] s = "Todo" -> <<84, 111, 100, 111>>
    [] s = "Todo2" -> <<84, 111, 100, 111, 50>>
    [] s = "Note" -> <<78, 111, 116, 101>>
    [] s = "hivemind-id: " -> <<104, 105, 118, 101, 109, 105, 110, 100, 45, 105, 100, 58, 32>>
    [] s = "Document ID: " -> <<68, 111, 99, 117, 109, 101, 110, 116, 32, 73, 68, 58, 32>>
    [] s = "# Recovered Shared Note" ->
         <<35, 32, 82, 101, 99, 111, 118, 101, 114, 101, 100, 32, 83, 104, 97,
           114, 101, 100, 32, 78, 111, 116, 101>>
    [] s = "This note was recovered from team sharing." ->
         <<84, 104, 105, 115, 32, 110, 111, 116, 101, 32, 119, 97, 115, 32, 114,
           101, 99, 111, 118, 101, 114, 101, 100, 32, 102, 114, 111, 109, 32,
           116, 101, 97, 109, 32, 115, 104, 97, 114, 105, 110, 103, 46>>
    [] s = "<!-- Content will be synced from team -->" ->
         <<60, 33, 45, 45, 32, 67, 111, 110, 116, 101, 110, 116, 32, 119, 105,
           108, 108, 32, 98, 101, 32, 115, 121, 110, 99, 101, 100, 32, 102, 114,
           111, 109, 32, 116, 101, 97, 109, 32, 45, 45, 62>>

RECURSIVE Digits(_)
\* the decimal digits of n >= 0
Digits(n) == IF n < 10 THEN <<48 + n>> ELSE Digits(n \div 10) \o <<48 + (n % 10)>>

\* one base-36 digit
Base36(r) == IF r < 10 THEN <<48 + r>> ELSE <<97 + (r - 10)>>

\* the code units of a document id: doc_<ts>_<rnd>
IdChars(id) == <<100, 111, 99, 95>> \o Digits(id.ts) \o <<95>> \o Base36(id.rnd)

LineChars(l) == IF l.k = "text" THEN Chars(l.s) ELSE Chars(l.s) \o IdChars(l.id)

RECURSIVE JoinLines(_)
\* lines.join('\n')
JoinLines(lines) ==
  IF Len(lines) = 0 THEN << >>
  ELSE IF Len(lines) = 1 THEN LineChars(lines[1])
  ELSE LineChars(lines[1]) \o <<10>> \o JoinLines(Tail(lines))

\* content.includes(documentId)
Includes(content, id) == \E i \in 1..Len(content) : content[i].k # "text" /\ content[i].id = id

----------------------------------------------------------------------------
(* Hashes *)

EmptyHash == [fn |-> "empty", n |-> 0, of |-> << >>]

\* The 32-bit accumulator is kept as two 16-bit halves [hi, lo], since the
\* checker's integers are themselves 32 bits wide.
HalfBase == 65536

\* ToInt32: the signed value `hash & hash` leaves
ToInt32(w) == IF w.hi >= 32768 THEN (w.hi - HalfBase) * HalfBase + w.lo ELSE w.hi * HalfBase + w.lo

\* one round: hash = (hash << 5) - hash + char; hash = hash & hash, i.e. 31 * hash + char mod 2^32
Round(w, ch) ==
  LET lo == 31 * w.lo + ch
      hi == 31 * w.hi + (lo \div HalfBase)
  IN [hi |-> hi % HalfBase, lo |-> lo % HalfBase]

RECURSIVE Roll(_, _)
\* the loop of DocumentMappingManager.hashContent from accumulator w
\* (each round starts from an accumulator already reduced to 32 bits)
Roll(w, cs) ==
  IF Len(cs) = 0 \/ w.hi >= HalfBase THEN ToInt32(w) ELSE Roll(Round(w, Head(cs)), Tail(cs))

\* DocumentMappingManager.hashContent: the rolling 32-bit hash, printed in decimal
hashContent(content) == [fn |-> "h32", n |-> Roll([hi |-> 0, lo |-> 0], JoinLines(content)), of |-> << >>]

\* FileRecoveryService.hashContent: SHA-256, printed in hex
recoveryHashContent(content) == [fn |-> "sha256", n |-> 0, of |-> content]

\* the truthiness of a hash string: '' is falsy, every printed hash is not
Truthy(h) == h.fn # "empty"

----------------------------------------------------------------------------
(* Mapping store: DocumentMappingManager *)

ActC(op, id, path, result, saved, content) ==
  [op |-> op, id |-> id, path |-> path, result |-> result, saved |-> saved, content |-> content,
   log |-> << >>, io |-> TRUE, threw |-> FALSE]

Act(op, id, path, result, saved) == ActC(op, id, path, result, saved, EmptyContent)

NoAct == Act("init", NoId, NoPath, "ok", FALSE)

\* Map.set / obj[key] = value on a table kept as a function
Put(table, id, m) == [d \in (DOMAIN table) \cup {id} |-> IF d = id THEN m ELSE table[d]]

\* Map.delete / delete obj[key]
Drop(table, id) == [d \in (DOMAIN table) \ {id} |-> table[d]]

\* the position a Map.set leaves the key at
OrderPut(order, id) == IF \E i \in 1..Len(order) : order[i] = id THEN order ELSE Append(order, id)

OrderDrop(order, id) == SelectSeq(order, LAMBDA d : d # id)

\* the store as one value: the Map, its iteration order, the settings object,
\* what the save hook wrote last, whether the save hook ran, whether saveData
\* works (io) and whether the awaited save hook rejected (threw)
Db ==
  [maps |-> mappings, order |-> mapOrder, sett |-> settingsMappings, pers |-> persisted,
   saved |-> FALSE, io |-> TRUE, threw |-> FALSE]

\* the store when saveData works or fails
DbIo(io) == [Db EXCEPT !.io = io]

\* a save hook that swallows the failure of saveData
saveCallbackSilent(db) ==
  IF db.io THEN [db EXCEPT !.pers = db.sett, !.saved = TRUE] ELSE [db EXCEPT !.saved = TRUE]

\* await saveCallback(): plugin.saveSettings() writes the settings object, or rejects
saveCallback(db) ==
  IF db.io THEN [db EXCEPT !.pers = db.sett, !.saved = TRUE]
  ELSE [db EXCEPT !.saved = TRUE, !.threw = TRUE]

\* the record of an operation of the store that left it as db
ActDb(op, id, path, result, db) ==
  [Act(op, id, path, result, db.saved) EXCEPT !.io = db.io, !.threw = db.threw]

findMappingById(maps, id) == IF id \in DOMAIN maps THEN id ELSE NoId

RECURSIVE FirstWithPath(_, _, _)
FirstWithPath(maps, order, path) ==
  IF Len(order) = 0 THEN NoId
  ELSE IF maps[Head(order)].localPath = path THEN Head(order)
  ELSE FirstWithPath(maps, Tail(order), path)

\* the id of the first mapping, in Map order, whose localPath is path
findMappingByPath(maps, order, path) == FirstWithPath(maps, order, path)

NewSharedMapping(id, path, teamId, content, now) ==
  [documentId |-> id, localPath |-> path, teamId |-> teamId,
   lastSyncedHash |-> hashContent(content), lastKnownPath |-> path,
   sharedAt |-> now, sharedBy |-> UserId]

\* shareNewDocument after the file was read
shareNewDocument(db, id, path, teamId, content, now) ==
  LET m == NewSharedMapping(id, path, teamId, content, now) IN
  saveCallback([db EXCEPT !.maps = Put(db.maps, id, m),
                          !.order = OrderPut(db.order, id),
                          !.sett = Put(db.sett, id, m)])

\* joinSharedDocument without its check that the id is not mapped yet
JoinErrorUnchecked(maps, id, localPath) == IF localPath = NoPath THEN "path required" ELSE "ok"

JoinError(maps, id, localPath) ==
  IF id \in DOMAIN maps THEN "already mapped"
  ELSE IF localPath = NoPath THEN "path required"
  ELSE "ok"

NewJoinedMapping(id, teamId, localPath, now) ==
  [documentId |-> id, localPath |-> localPath, teamId |-> teamId,
   lastSyncedHash |-> EmptyHash, lastKnownPath |-> localPath,
   sharedAt |-> now, sharedBy |-> Absent]

joinSharedDocument(db, id, teamId, localPath, now) ==
  IF JoinError(db.maps, id, localPath) # "ok" THEN db
  ELSE LET m == NewJoinedMapping(id, teamId, localPath, now) IN
       saveCallback([db EXCEPT !.maps = Put(db.maps, id, m),
                               !.order = OrderPut(db.order, id),
                               !.sett = Put(db.sett, id, m)])

UpdateError(maps, id) == IF id \in DOMAIN maps THEN "ok" ELSE "no mapping"

\* a mutator that also rewrites the documentId of the record
RelocatedRekeyed(m, newPath) ==
  [m EXCEPT !.lastKnownPath = m.localPath, !.localPath = newPath, !.documentId = NoId]

\* updateMapping with its two assignments in the other order
RelocatedLate(m, newPath) == [m EXCEPT !.lastKnownPath = newPath, !.localPath = newPath]

Relocated(m, newPath) == [m EXCEPT !.lastKnownPath = m.localPath, !.localPath = newPath]

updateMapping(db, id, newPath) ==
  IF UpdateError(db.maps, id) # "ok" THEN db
  ELSE LET m == Relocated(db.maps[id], newPath) IN
       saveCallback([db EXCEPT !.maps = Put(db.maps, id, m), !.sett = Put(db.sett, id, m)])

\* a removeMapping that forgets the settings object
removeMappingTableOnly(db, id) ==
  saveCallback([db EXCEPT !.maps = Drop(db.maps, id), !.order = OrderDrop(db.order, id)])

\* a removeMapping that rejects a documentId the table does not hold
removeMappingStrict(db, id) ==
  IF id \notin DOMAIN db.maps THEN [db EXCEPT !.threw = TRUE]
  ELSE saveCallback([db EXCEPT !.maps = Drop(db.maps, id),
                               !.order = OrderDrop(db.order, id),
                               !.sett = Drop(db.sett, id)])

removeMapping(db, id) ==
  saveCallback([db EXCEPT !.maps = Drop(db.maps, id),
                          !.order = OrderDrop(db.order, id),
                          !.sett = Drop(db.sett, id)])

\* an updateLastSyncedHash that saves whether or not it found the mapping
updateLastSyncedHashAlwaysSaving(db, id, hash) ==
  IF id \notin DOMAIN db.maps THEN saveCallback(db)
  ELSE LET m == [db.maps[id] EXCEPT !.lastSyncedHash = hash] IN
       saveCallback([db EXCEPT !.maps = Put(db.maps, id, m), !.sett = Put(db.sett, id, m)])

updateLastSyncedHash(db, id, hash) ==
  IF id \notin DOMAIN db.maps THEN db
  ELSE LET m == [db.maps[id] EXCEPT !.lastSyncedHash = hash] IN
       saveCallback([db EXCEPT !.maps = Put(db.maps, id, m), !.sett = Put(db.sett, id, m)])

\* A listener closure of setupBidirectionalSync is [id, team, path, cur, held]:
\* the documentId and the mapping object it captured (its teamId and its
\* localPath), whether that object is still the one the table holds (cur), and
\* whether its unsubscribe handle is the one kept in SharedNoteManager.listeners.
\* updateMapping assigns to the table's object, so the closures holding it follow:
Relinked(ss, id, newPath) == {IF s.id = id /\ s.cur THEN [s EXCEPT !.path = newPath] ELSE s : s \in ss}

\* the table lets go of the object of id (Map.delete, or Map.set of a new object)
Detached(ss, id) == {IF s.id = id THEN [s EXCEPT !.cur = FALSE] ELSE s : s \in ss}

\* the store variables after an operation left the store as db
SetDb(db) ==
  /\ mappings' = db.maps
  /\ mapOrder' = db.order
  /\ settingsMappings' = db.sett
  /\ persisted' = db.pers

----------------------------------------------------------------------------
(* The operations of the store as called by the command layer *)

Step(max) == steps < max /\ steps' = steps + 1

Tick ==
  /\ clock < MaxClock
  /\ clock' = clock + 1
  /\ UNCHANGED <<ksVars, vault, storeVars, orchVars, editorBuf, store, subs, pendingModify, returned,
                 lastAct, burst, steps>>

CallShareNewDocument(path, teamId, rnd, io) ==
  LET id == generateDocumentId(clock, rnd) IN
  IF ~vault[path].ex
  THEN /\ lastAct' = Act("create", NoId, path, "read failed", FALSE)
       /\ UNCHANGED <<ksVars, clock, vault, storeVars, orchVars, editorBuf, store, subs, pendingModify,
                      returned, burst>>
  ELSE LET db == shareNewDocument(DbIo(io), id, path, teamId, vault[path].c, clock) IN
       /\ SetDb(db)
       /\ subs' = Detached(subs, id)
       /\ returned' = IF db.threw THEN returned ELSE returned \cup {id}
       /\ lastAct' = ActDb("create", id, path, "ok", db)
       /\ UNCHANGED <<ksVars, clock, vault, orchVars, editorBuf, store, pendingModify, burst>>

CallJoinSharedDocument(id, teamId, localPath, io) ==
  LET db == joinSharedDocument(DbIo(io), id, teamId, localPath, clock) IN
  /\ SetDb(db)
  /\ lastAct' = ActDb("join", id, localPath, JoinError(mappings, id, localPath), db)
  /\ UNCHANGED <<ksVars, clock, vault, orchVars, editorBuf, store, subs, pendingModify, returned, burst>>

CallUpdateMapping(id, newPath, io) ==
  LET db == updateMapping(DbIo(io), id, newPath) IN
  /\ SetDb(db)
  /\ subs' = Relinked(subs, id, newPath)
  /\ lastAct' = ActDb("updatePath", id, newPath, UpdateError(mappings, id), db)
  /\ UNCHANGED <<ksVars, clock, vault, orchVars, editorBuf, store, pendingModify, returned, burst>>

CallRemoveMapping(id, io) ==
  LET db == removeMapping(DbIo(io), id) IN
  /\ SetDb(db)
  /\ subs' = Detached(subs, id)
  /\ lastAct' = ActDb("remove", id, NoPath, "ok", db)
  /\ UNCHANGED <<ksVars, clock, vault, orchVars, editorBuf, store, pendingModify, returned, burst>>

CallUpdateLastSyncedHash(id, content, io) ==
  LET db == updateLastSyncedHash(DbIo(io), id, hashContent(content)) IN
  /\ SetDb(db)
  /\ lastAct' = ActDb("updateHash", id, NoPath, "ok", db)
  /\ UNCHANGED <<ksVars, clock, vault, orchVars, editorBuf, store, subs, pendingModify, returned, burst>>

----------------------------------------------------------------------------
(* Specification of the mapping store alone *)

StorePaths == {TodoMd, Todo2Md, ArchiveTodo2Md}

StoreContents == {Abc, Xyz}

EmptyTable == [d \in {} |-> NoId]

\* the ids an argument of the command layer may name
ArgIds == (DOMAIN mappings) \cup ForeignIds

NoBurst == [n |-> 0, first |-> EmptyContent, last |-> EmptyContent, clean |-> TRUE, fired |-> FALSE]

\* the state the constructors leave (SyncOrchestrator, SharedNoteManager) and the histories
InitLocal ==
  /\ ignoreNextChange = {}
  /\ debounceTimers = EmptyTable
  /\ timers = {}
  /\ editorBuf = EmptyTable
  /\ subs = {}
  /\ pendingModify = [p \in Paths |-> 0]
  /\ returned = {}
  /\ lastAct = NoAct
  /\ burst = [p \in Paths |-> NoBurst]
  /\ steps = 0
  /\ keepsyncService = [initialized |-> FALSE, onReconnectCallbacks |-> << >>]
  /\ everReady = FALSE
  /\ autoSync = NoAutoSync

\* ... and an external store that holds no document yet
InitRest == InitLocal /\ store = EmptyTable

InitStore ==
  /\ clock = 1
  /\ vault = [p \in Paths |-> IF p = TodoMd THEN File(Abc) ELSE IF p = Todo2Md THEN File(Xyz) ELSE NoFile]
  /\ mappings = EmptyTable
  /\ mapOrder = << >>
  /\ settingsMappings = EmptyTable
  /\ persisted = EmptyTable
  /\ InitRest

NextStore ==
  \/ Tick
  \/ \E p \in StorePaths, t \in Teams, r \in Rands, io \in BOOLEAN :
        Step(MaxStoreSteps) /\ CallShareNewDocument(p, t, r, io)
  \/ \E id \in ForeignIds, t \in Teams, p \in StorePaths \cup {NoPath}, io \in BOOLEAN :
        Step(MaxStoreSteps) /\ CallJoinSharedDocument(id, t, p, io)
  \/ \E id \in ArgIds, p \in StorePaths, io \in BOOLEAN :
        Step(MaxStoreSteps) /\ CallUpdateMapping(id, p, io)
  \/ \E id \in ArgIds, io \in BOOLEAN : Step(MaxStoreSteps) /\ CallRemoveMapping(id, io)
  \/ \E id \in ArgIds, c \in StoreContents, io \in BOOLEAN :
        Step(MaxStoreSteps) /\ CallUpdateLastSyncedHash(id, c, io)

SpecStore == InitStore /\ [][NextStore]_vars

----------------------------------------------------------------------------
(* Sync orchestrator: SyncOrchestrator *)

\* A timer is [tid, key, file, kind]: its id, the path it was filed under in
\* debounceTimers, the current path of the TFile its callback captured (a
\* rename assigns to TFile.path), and which handler made the callback.
TimerIds == 1..MaxTimers

\* the orchestrator as one value
Orch == [ignore |-> ignoreNextChange, dts |-> debounceTimers, timers |-> timers]

SetOrch(o) ==
  /\ ignoreNextChange' = o.ignore
  /\ debounceTimers' = o.dts
  /\ timers' = o.timers

UsedTids(o) == {t.tid : t \in o.timers} \cup {o.dts[k] : k \in DOMAIN o.dts}

\* setTimeout never hands out an id again
FreshTid(o) == CHOOSE i \in TimerIds : i \notin UsedTids(o) /\ \A j \in TimerIds : j < i => j \in UsedTids(o)

TidAvailable == \E i \in TimerIds : i \notin UsedTids(Orch)

\* clearTimeout(existingTimer)
Cleared(ts, tid) == {t \in ts : t.tid # tid}

debounceSync(o, path, kind) ==
  LET tid == FreshTid(o)
      live == IF path \in DOMAIN o.dts THEN Cleared(o.timers, o.dts[path]) ELSE o.timers
  IN [o EXCEPT !.timers = live \cup {[tid |-> tid, key |-> path, file |-> path, kind |-> kind]},
               !.dts = Put(o.dts, path, tid)]

\* what a change handler does with an event for path: nothing on an unmapped
\* path, consume the flag, or (re)start the timer
\* the handler without the ignoreNextChange test
EventOutcomeUnguarded(maps, order, ignore, path) ==
  IF findMappingByPath(maps, order, path) = NoId THEN "unmapped" ELSE "debounced"

EventOutcome(maps, order, ignore, path) ==
  IF findMappingByPath(maps, order, path) = NoId THEN "unmapped"
  ELSE IF path \in ignore THEN "consumed"
  ELSE "debounced"

\* handleFileModify (kind "modify") and handleEditorChange (kind "editor")
handleChange(o, maps, order, path, kind) ==
  LET out == EventOutcome(maps, order, o.ignore, path) IN
  IF out = "unmapped" THEN o
  ELSE IF out = "consumed" THEN [o EXCEPT !.ignore = o.ignore \ {path}]
  ELSE debounceSync(o, path, kind)

handleFileModify(o, maps, order, path) == handleChange(o, maps, order, path, "modify")

handleEditorChange(o, maps, order, path) == handleChange(o, maps, order, path, "editor")

\* handleFileRename that also resets the hash of the mapping
handleFileRenameRehash(db, oldPath, newPath) ==
  LET id == findMappingByPath(db.maps, db.order, oldPath) IN
  IF id = NoId THEN db ELSE updateLastSyncedHash(updateMapping(db, id, newPath), id, EmptyHash)

\* handleFileRename: the mapping of the old path, if any, moves to the new path
handleFileRename(db, oldPath, newPath) ==
  LET id == findMappingByPath(db.maps, db.order, oldPath) IN
  IF id = NoId THEN db ELSE updateMapping(db, id, newPath)

\* handleFileDelete that removes the mapping of the path
handleFileDeleteUnlinking(db, path) ==
  LET id == findMappingByPath(db.maps, db.order, path) IN
  IF id = NoId THEN db ELSE removeMapping(db, id)

\* handleFileDelete only logs
handleFileDelete(db, path) == db

\* syncToKeepsync: the hash of the content is recorded for the mapping of the path
syncToKeepsync(db, path, content) ==
  LET id == findMappingByPath(db.maps, db.order, path) IN
  IF id = NoId THEN db ELSE updateLastSyncedHash(db, id, hashContent(content))

\* the history of a timer key after an edit of content c (re)started its timer
Edited(b, o, key, c) ==
  [b EXCEPT ![key] = IF \E t \in o.timers : t.key = key
                     THEN [b[key] EXCEPT !.n = @ + 1, !.last = c]
                     ELSE [n |-> 1, first |-> c, last |-> c, clean |-> TRUE, fired |-> FALSE]]

\* the history after the file at path was written by something that is no local
\* edit, or was moved or deleted
Tainted(b, ts, path) ==
  [k \in DOMAIN b |-> IF \E t \in ts : t.key = k /\ t.file = path
                       THEN [b[k] EXCEPT !.clean = FALSE] ELSE b[k]]

BurstAfter(out, path, c) == IF out = "debounced" THEN Edited(burst, Orch, path, c) ELSE burst

----------------------------------------------------------------------------
(* The leading metadata block *)

\* the index of the first '---' after line 1, or 0
RECURSIVE DelimFrom(_, _)
DelimFrom(lines, i) ==
  IF i > Len(lines) THEN 0 ELSE IF lines[i] = Delim THEN i ELSE DelimFrom(lines, i + 1)

\* addFrontmatterMetadata: the new content of the file
addFrontmatterMetadata(lines, id) ==
  IF lines[1] = Delim
  THEN LET e == DelimFrom(lines, 2) IN
       IF e # 0 THEN SubSeq(lines, 1, e - 1) \o <<TagLine(id)>> \o SubSeq(lines, e, Len(lines))
       ELSE lines
  ELSE <<Delim, TagLine(id), Delim, Blank>> \o lines

----------------------------------------------------------------------------
(* Bidirectional sync controller: SharedNoteManager *)

\* `/teams/${mapping.teamId}/documents/${documentId}/content`
ContentKey(teamId, id) == [team |-> teamId, id |-> id]

\* listeners.set(documentId, unsubscribe): the new closure's handle replaces the kept one
Subscribed(ss, id, teamId, path) ==
  {[s EXCEPT !.held = IF s.id = id THEN FALSE ELSE s.held] : s \in ss}
    \cup {[id |-> id, team |-> teamId, path |-> path, cur |-> TRUE, held |-> TRUE]}

\* what the controller works on: the mapping store, the vault, the external
\* store, the listeners and the ignore set of the orchestrator
Ctl == [db |-> Db, vault |-> vault, store |-> store, subs |-> subs, ignore |-> ignoreNextChange]

\* writeDoc(keepsyncPath, {content}) of setupBidirectionalSync
writeDoc(c, id, teamId, path) ==
  [c EXCEPT !.store = Put(c.store, ContentKey(teamId, id), c.vault[path].c)]

\* listenToDoc(keepsyncPath, ...): the listener is registered, its handle not yet kept
listenToDoc(c, id, teamId, path) ==
  [c EXCEPT !.subs = c.subs \cup {[id |-> id, team |-> teamId, path |-> path, cur |-> TRUE,
                                    held |-> FALSE]}]

\* listeners.set(documentId, unsubscribe)
listenersSet(c, id, teamId, path) ==
  [c EXCEPT !.subs = Subscribed({s \in c.subs : ~(s.id = id /\ s.cur /\ ~s.held)},
                                id, teamId, path)]

\* shareMainDocument that subscribes before it writes the content
shareMainDocumentListenFirst(c, id, path, teamId, now) ==
  LET c1 == [c EXCEPT !.db = shareNewDocument(c.db, id, path, teamId, c.vault[path].c, now),
                      !.subs = Detached(c.subs, id)]
      c2 == [c1 EXCEPT !.vault[path] = File(addFrontmatterMetadata(c1.vault[path].c, id))]
      c3 == listenToDoc(c2, id, teamId, path)
      c4 == listenersSet(c3, id, teamId, path)
      c5 == writeDoc(c4, id, teamId, path)
  IN <<c, c1, c2, c3, c4, c5>>

\* shareMainDocument: what the controller works on before the call and after
\* each of its steps: shareNewDocument, addFrontmatterMetadata, then
\* setupBidirectionalSync (writeDoc, listenToDoc, listeners.set)
shareMainDocument(c, id, path, teamId, now) ==
  LET c1 == [c EXCEPT !.db = shareNewDocument(c.db, id, path, teamId, c.vault[path].c, now),
                      !.subs = Detached(c.subs, id)]
      c2 == [c1 EXCEPT !.vault[path] = File(addFrontmatterMetadata(c1.vault[path].c, id))]
      c3 == writeDoc(c2, id, teamId, path)
      c4 == listenToDoc(c3, id, teamId, path)
      c5 == listenersSet(c4, id, teamId, path)
  IN <<c, c1, c2, c3, c4, c5>>

\* how far a share of id has come in c
Progress(c, id, path, teamId) ==
  [mapped |-> id \in DOMAIN c.db.maps,
   tagged |-> \E i \in DOMAIN c.vault[path].c : c.vault[path].c[i] = TagLine(id),
   stored |-> ContentKey(teamId, id) \in DOMAIN c.store,
   listening |-> \E s \in c.subs : s.id = id /\ s.cur,
   held |-> \E s \in c.subs : s.id = id /\ s.cur /\ s.held]

\* shareNote of a file: shareMainDocument, whose write of the tag the vault
\* will notify
Share(path, teamId, rnd) ==
  LET id == generateDocumentId(clock, rnd) IN
  /\ pendingModify[path] < MaxPending
  /\ IF ~vault[path].ex
     THEN /\ lastAct' = Act("share", NoId, path, "read failed", FALSE)
          /\ UNCHANGED <<ksVars, clock, vault, storeVars, orchVars, editorBuf, store, subs,
                         pendingModify, returned, burst>>
     ELSE LET cs == shareMainDocument(Ctl, id, path, teamId, clock)
              c == cs[Len(cs)]
          IN /\ SetDb(c.db)
             /\ vault' = c.vault
             /\ pendingModify' = [pendingModify EXCEPT ![path] = @ + 1]
             /\ store' = c.store
             /\ subs' = c.subs
             /\ returned' = returned \cup {id}
             /\ burst' = Tainted(burst, timers, path)
             /\ lastAct' = [ActC("share", id, path, "ok", c.db.saved, c.vault[path].c)
                              EXCEPT !.log = [i \in DOMAIN cs |-> Progress(cs[i], id, path, teamId)]]
             /\ UNCHANGED <<ksVars, clock, orchVars, editorBuf>>

\* a listener that does not mark the path
ListenerFlagsNone(ignore, path) == ignore

\* the listener's ignoreNextChange.add(currentFile.path)
ListenerFlags(ignore, path) == ignore \cup {path}

\* the listener of setupBidirectionalSync, called with remote content docContent
\* that differs from the file: what the controller works on before the call and
\* after ignoreNextChange.add, vault.modify and updateLastSyncedHash
applyRemote(c, s, docContent) ==
  LET c1 == [c EXCEPT !.ignore = ListenerFlags(c.ignore, s.path)]
      c2 == [c1 EXCEPT !.vault[s.path] = File(docContent)]
      c3 == [c2 EXCEPT !.db = updateLastSyncedHash(c2.db, s.id, hashContent(docContent))]
  IN <<c, c1, c2, c3>>

\* how far the listener s has come in c with content docContent
Applied(c, s, docContent) ==
  [flagged |-> s.path \in c.ignore,
   written |-> c.vault[s.path].c = docContent,
   hashed |-> s.id \in DOMAIN c.db.maps /\ c.db.maps[s.id].lastSyncedHash = hashContent(docContent)]

\* a listener whose failed write takes the mark back
remoteWriteFailedRolledBack(c, s) == c

\* the listener up to the rejection of vault.modify: ignoreNextChange.add has
\* run, the file and the hash are as they were, and nothing catches in between
remoteWriteFailed(c, s) == [c EXCEPT !.ignore = ListenerFlags(c.ignore, s.path)]

\* The listener called with remote content c that differs from the file, when
\* vault.modify rejects: no modify event follows, for nothing was written
RemoteWriteFails(s, c) ==
  LET out == remoteWriteFailed(Ctl, s) IN
  /\ vault[s.path].ex /\ c # vault[s.path].c
  /\ store' = Put(store, ContentKey(s.team, s.id), c)
  /\ ignoreNextChange' = out.ignore
  /\ lastAct' = [ActC("remote", s.id, s.path, "write failed", FALSE, c) EXCEPT !.threw = TRUE]
  /\ UNCHANGED <<ksVars, clock, vault, storeVars, debounceTimers, timers, editorBuf, subs,
                 pendingModify, returned, burst>>

\* The listener of setupBidirectionalSync, called with the remote content c
RemoteNotify(s, c) ==
  LET path == s.path IN
  /\ store' = Put(store, ContentKey(s.team, s.id), c)
  /\ IF ~vault[path].ex
     THEN /\ lastAct' = ActC("remote", s.id, path, "no file", FALSE, c)
          /\ UNCHANGED <<ksVars, clock, vault, storeVars, orchVars, editorBuf, subs, pendingModify,
                         returned, burst>>
     ELSE IF c = vault[path].c
     THEN /\ lastAct' = ActC("remote", s.id, path, "same", FALSE, c)
          /\ UNCHANGED <<ksVars, clock, vault, storeVars, orchVars, editorBuf, subs, pendingModify,
                         returned, burst>>
     ELSE LET cs == applyRemote(Ctl, s, c)
              out == cs[Len(cs)]
          IN
          /\ pendingModify[path] < MaxPending
          /\ ignoreNextChange' = out.ignore
          /\ vault' = out.vault
          /\ pendingModify' = [pendingModify EXCEPT ![path] = @ + 1]
          /\ SetDb(out.db)
          /\ burst' = Tainted(burst, timers, path)
          /\ lastAct' = [ActC("remote", s.id, path, "applied", out.db.saved, c)
                           EXCEPT !.log = [i \in DOMAIN cs |-> Applied(cs[i], s, c)]]
          /\ UNCHANGED <<ksVars, clock, debounceTimers, timers, editorBuf, subs, returned>>

\* removeFrontmatterMetadata: whether the file is rewritten, and its new content
removeFrontmatterMetadata(lines) ==
  LET e == IF lines[1] = Delim THEN DelimFrom(lines, 2) ELSE 0
      upper == IF e = 0 THEN Len(lines) ELSE e - 1
      tags == IF lines[1] = Delim THEN {i \in 2..upper : lines[i].k = "tag"} ELSE {}
      h == CHOOSE i \in tags : \A j \in tags : j <= i
      spliced == SubSeq(lines, 1, h - 1) \o SubSeq(lines, h + 1, Len(lines))
      rest == IF e = 3 THEN SubSeq(spliced, 4, Len(spliced)) ELSE spliced
  IN IF tags = {} THEN [write |-> FALSE, lines |-> lines]
     ELSE [write |-> TRUE, lines |-> IF rest = << >> THEN <<Blank>> ELSE rest]

\* unshareNote of the file at path, whose first mapping is id: what the
\* controller works on before the call and after the unsubscribe with
\* listeners.delete, after removeFrontmatterMetadata and after removeMapping
unshareNote(c, id, path) ==
  LET c1 == [c EXCEPT !.subs = {s \in c.subs : ~(s.id = id /\ s.held)}]
      c2 == [c1 EXCEPT !.vault[path] = File(removeFrontmatterMetadata(c1.vault[path].c).lines)]
      c3 == [c2 EXCEPT !.db = removeMapping(c2.db, id), !.subs = Detached(c2.subs, id)]
  IN <<c, c1, c2, c3>>

\* how far an unshare of id has come in c
Undone(c, id, path) ==
  [unsubscribed |-> ~\E s \in c.subs : s.id = id /\ s.held,
   untagged |-> ~\E i \in DOMAIN c.vault[path].c : c.vault[path].c[i] = TagLine(id),
   unmapped |-> id \notin DOMAIN c.db.maps]

\* the unshare command on the file at path; a command runs once the vault has
\* delivered the notifications of the earlier writes to the file
Unshare(path) ==
  LET id == findMappingByPath(mappings, mapOrder, path) IN
  /\ vault[path].ex
  /\ pendingModify[path] = 0
  /\ IF id = NoId
     THEN /\ lastAct' = Act("unshare", NoId, path, "not shared", FALSE)
          /\ UNCHANGED <<ksVars, clock, vault, storeVars, orchVars, editorBuf, store, subs,
                         pendingModify, returned, burst>>
     ELSE LET cs == unshareNote(Ctl, id, path)
              c == cs[Len(cs)]
              wrote == removeFrontmatterMetadata(vault[path].c).write
          IN /\ subs' = c.subs
             /\ vault' = c.vault
             /\ pendingModify' = [pendingModify EXCEPT ![path] = IF wrote THEN @ + 1 ELSE @]
             /\ burst' = IF wrote THEN Tainted(burst, timers, path) ELSE burst
             /\ SetDb(c.db)
             /\ lastAct' = [ActC("unshare", id, path, "ok", c.db.saved, c.vault[path].c)
                              EXCEPT !.log = [i \in DOMAIN cs |-> Undone(cs[i], id, path)]]
             /\ UNCHANGED <<ksVars, clock, orchVars, editorBuf, store, returned>>

----------------------------------------------------------------------------
(* Local events *)

\* the vault delivers the 'modify' notification of one of the plugin's own writes
ModifyEvent(path) ==
  LET out == EventOutcome(mappings, mapOrder, ignoreNextChange, path) IN
  /\ pendingModify[path] > 0
  /\ out = "debounced" => TidAvailable
  /\ pendingModify' = [pendingModify EXCEPT ![path] = @ - 1]
  /\ SetOrch(handleFileModify(Orch, mappings, mapOrder, path))
  /\ burst' = BurstAfter(out, path, vault[path].c)
  /\ lastAct' = ActC("modifyEvent", findMappingByPath(mappings, mapOrder, path), path, out,
                     FALSE, vault[path].c)
  /\ UNCHANGED <<ksVars, clock, vault, storeVars, editorBuf, store, subs, returned>>

\* the file at path is written outside the plugin, and the vault says so
LocalModify(path, c) ==
  LET out == EventOutcome(mappings, mapOrder, ignoreNextChange, path) IN
  /\ vault[path].ex
  /\ out = "debounced" => TidAvailable
  /\ vault' = [vault EXCEPT ![path] = File(c)]
  /\ SetOrch(handleFileModify(Orch, mappings, mapOrder, path))
  /\ burst' = BurstAfter(out, path, c)
  /\ lastAct' = ActC("localModify", findMappingByPath(mappings, mapOrder, path), path, out,
                     FALSE, c)
  /\ UNCHANGED <<ksVars, clock, storeVars, editorBuf, store, subs, pendingModify, returned>>

\* the user types in the editor open on the file at path
EditorChange(path, c) ==
  LET out == EventOutcome(mappings, mapOrder, ignoreNextChange, path) IN
  /\ vault[path].ex
  /\ out = "debounced" => TidAvailable
  /\ editorBuf' = Put(editorBuf, path, c)
  /\ SetOrch(handleEditorChange(Orch, mappings, mapOrder, path))
  /\ burst' = BurstAfter(out, path, c)
  /\ lastAct' = ActC("editorChange", findMappingByPath(mappings, mapOrder, path), path, out,
                     FALSE, c)
  /\ UNCHANGED <<ksVars, clock, vault, storeVars, store, subs, pendingModify, returned>>

\* a table keyed by path after the file at old moved to new
Moved(table, old, new) ==
  IF old \in DOMAIN table THEN Put(Drop(table, old), new, table[old]) ELSE table

\* the file at oldPath is renamed to newPath (the vault reports events in the
\* order of the changes: the notifications of earlier writes are out)
FileRename(oldPath, newPath) ==
  LET db == handleFileRename(Db, oldPath, newPath)
      id == findMappingByPath(mappings, mapOrder, oldPath)
  IN /\ vault[oldPath].ex
     /\ ~vault[newPath].ex
     /\ pendingModify[oldPath] = 0
     /\ vault' = [vault EXCEPT ![oldPath] = NoFile, ![newPath] = vault[oldPath]]
     /\ timers' = {IF t.file = oldPath THEN [t EXCEPT !.file = newPath] ELSE t : t \in timers}
     /\ editorBuf' = Moved(editorBuf, oldPath, newPath)
     /\ SetDb(db)
     /\ subs' = IF id = NoId THEN subs ELSE Relinked(subs, id, newPath)
     /\ lastAct' = Act("rename", id, newPath, IF id = NoId THEN "unmapped" ELSE "moved", db.saved)
     /\ burst' = Tainted(burst, timers, oldPath)
     /\ UNCHANGED <<ksVars, clock, ignoreNextChange, debounceTimers, store, pendingModify, returned>>

\* the file at path is deleted
FileDelete(path) ==
  LET db == handleFileDelete(Db, path) IN
  /\ vault[path].ex
  /\ pendingModify[path] = 0
  /\ vault' = [vault EXCEPT ![path] = NoFile]
  /\ SetDb(db)
  /\ burst' = Tainted(burst, timers, path)
  /\ lastAct' = Act("delete", findMappingByPath(mappings, mapOrder, path), path, "ok", db.saved)
  /\ UNCHANGED <<ksVars, clock, orchVars, editorBuf, store, subs, pendingModify, returned>>

\* what the callback of timer t reads when it runs
FlushContent(t) ==
  IF t.kind = "editor" THEN editorBuf[t.file] ELSE vault[t.file].c

FlushOutcome(t) ==
  IF t.kind = "modify" /\ ~vault[t.file].ex THEN "read failed"
  ELSE IF findMappingByPath(mappings, mapOrder, t.file) = NoId THEN "unmapped"
  ELSE "flushed"

\* a timer that is dropped without its callback being run
FireTimerCancelled(t, io) ==
  /\ timers' = timers \ {t}
  /\ debounceTimers' = Drop(debounceTimers, t.file)
  /\ lastAct' = ActC("fire", findMappingByPath(mappings, mapOrder, t.file), t.key, "cancelled", FALSE,
                     EmptyContent)
  /\ UNCHANGED <<ksVars, clock, vault, storeVars, ignoreNextChange, editorBuf, store, subs,
                 pendingModify, returned, burst>>

\* timer t fires: its callback runs and debounceTimers.delete(file.path). The
\* rejection of saveData is caught in syncToKeepsync ("caught"); the rejection
\* of vault.read in the callback of handleFileModify is caught by nothing
FireTimer(t, io) ==
  LET out == FlushOutcome(t)
      db == IF out = "flushed" THEN syncToKeepsync(DbIo(io), t.file, FlushContent(t)) ELSE Db
      res == IF out = "flushed" /\ db.threw THEN "caught" ELSE out
  IN /\ timers' = timers \ {t}
     /\ debounceTimers' = Drop(debounceTimers, t.file)
     /\ SetDb(db)
     /\ burst' = [burst EXCEPT ![t.key].fired = TRUE]
     /\ lastAct' = [ActC("fire", findMappingByPath(mappings, mapOrder, t.file), t.key, res, db.saved,
                         IF out = "read failed" THEN EmptyContent ELSE FlushContent(t))
                      EXCEPT !.io = db.io, !.threw = db.threw]
     /\ UNCHANGED <<ksVars, clock, vault, ignoreNextChange, editorBuf, store, subs, pendingModify, returned>>

----------------------------------------------------------------------------
(* Specification of the orchestrator with the controller's listener *)

SyncPaths == {TodoMd, Todo2Md}

SyncContents == {Abc, Xyz}

InitSync ==
  /\ clock = 1
  /\ vault = [p \in Paths |-> IF p = TodoMd THEN File(Abc) ELSE NoFile]
  /\ mappings = EmptyTable
  /\ mapOrder = << >>
  /\ settingsMappings = EmptyTable
  /\ persisted = EmptyTable
  /\ InitRest

NextSync ==
  \/ \E p \in SyncPaths, r \in Rands : Step(MaxSyncSteps) /\ Share(p, "t1", r)
  \/ \E s \in subs, c \in SyncContents : Step(MaxSyncSteps) /\ RemoteNotify(s, c)
  \/ \E p \in SyncPaths : Step(MaxSyncSteps) /\ ModifyEvent(p)
  \/ \E p \in SyncPaths, c \in SyncContents : Step(MaxSyncSteps) /\ LocalModify(p, c)
  \/ \E p \in SyncPaths, c \in SyncContents : Step(MaxSyncSteps) /\ EditorChange(p, c)
  \/ \E p \in SyncPaths, q \in SyncPaths : Step(MaxSyncSteps) /\ FileRename(p, q)
  \/ \E p \in SyncPaths : Step(MaxSyncSteps) /\ FileDelete(p)
  \/ \E t \in timers, io \in BOOLEAN : Step(MaxSyncSteps) /\ FireTimer(t, io)
  \/ \E p \in SyncPaths : Step(MaxSyncSteps) /\ Unshare(p)

SpecSync == InitSync /\ [][NextSync]_vars

----------------------------------------------------------------------------
(* Recovery engine: FileRecoveryService *)

MdPaths == {p \in Paths : p.ext = "md"}

\* the orders in which the vault may list the markdown files S, followed by the
\* one file that is not markdown (every use drops it, so its place is immaterial)
FileOrders(S) ==
  {o \o <<TodoTxt>> : o \in {q \in [1..Cardinality(S) -> S] :
                                 \A i, j \in DOMAIN q : q[i] = q[j] => i = j}}

\* vault.getFiles() and vault.getMarkdownFiles() of vault v listed in order ord
getFiles(ord, v) == SelectSeq(ord, LAMBDA p : v[p].ex)

getMarkdownFiles(ord, v) == SelectSeq(ord, LAMBDA p : v[p].ex /\ FileExtension(p) = "md")

\* toLowerCase() of code units
Lower(cs) == [i \in DOMAIN cs |-> IF cs[i] >= 65 /\ cs[i] <= 90 THEN cs[i] + 32 ELSE cs[i]]

\* a.includes(b) on code units
IncludesChars(a, b) ==
  \E i \in 0..(Len(a) - Len(b)) : \A j \in 1..Len(b) : a[i + j] = b[j]

\* line.startsWith('#')
StartsWithHash(l) == LineChars(l) # << >> /\ LineChars(l)[1] = 35

\* the placeholder of recreateFromRemote
Placeholder(id) ==
  <<Text("# Recovered Shared Note"), Blank, Text("This note was recovered from team sharing."),
    DocIdLine(id), Blank, Text("<!-- Content will be synced from team -->"), Blank>>

\* metadataCache.getFileCache(file)?.frontmatter?.['hivemind-id']: the tag of
\* the leading block (the last one, were the key repeated), or NoId
FrontmatterId(content) ==
  LET e == IF content[1] = Delim THEN DelimFrom(content, 2) ELSE 0
      tags == {i \in 2..(e - 1) : content[i].k = "tag"}
  IN IF tags = {} THEN NoId
     ELSE content[CHOOSE i \in tags : \A j \in tags : j <= i].id

\* the first path of a sequence, or NoPath (null)
FirstPath(hits) == IF Len(hits) = 0 THEN NoPath ELSE hits[1]

\* strategy 1: the markdown files whose basename is that of lastKnownPath
\* strategy 1 without the test of the extension
BasenameCandidatesAnyExtension(ord, v, m) ==
  SelectSeq(getFiles(ord, v), LAMBDA p : FileBasename(p) = getBasename(m.lastKnownPath))

BasenameCandidates(ord, v, m) ==
  SelectSeq(getFiles(ord, v),
            LAMBDA p : FileBasename(p) = getBasename(m.lastKnownPath) /\ FileExtension(p) = "md")

\* calculateSimilarity, in hundredths
calculateSimilarity(content, m) ==
  IF ~Truthy(m.lastSyncedHash) THEN 0
  ELSE IF recoveryHashContent(content) = m.lastSyncedHash THEN 100
  ELSE IF Includes(content, m.documentId) THEN 95
  ELSE IF (\E i \in 1..Len(content) : StartsWithHash(content[i])) /\ Len(content) > 5 THEN 70
  ELSE IF Len(content) > 5 THEN 50
  ELSE 30

\* the test of findByContent on one file
ContentMatches(content, m) ==
  recoveryHashContent(content) = m.lastSyncedHash \/ calculateSimilarity(content, m) > 90

\* strategy 2
findByContent(ord, v, m) ==
  FirstPath(SelectSeq(getMarkdownFiles(ord, v), LAMBDA p : ContentMatches(v[p].c, m)))

\* findByFrontmatter with no test of the tag
FrontmatterMatchesAny(content, id) == TRUE

FrontmatterMatches(content, id) == FrontmatterId(content) = id

\* strategy 3
findByFrontmatter(ord, v, id) ==
  FirstPath(SelectSeq(getMarkdownFiles(ord, v), LAMBDA p : FrontmatterMatches(v[p].c, id)))

\* A recovery run in progress is [db, vault, log]; a log entry says what became
\* of one orphan: how it ended, the file chosen, the mapping and the vault as
\* they were when its turn came, and the strategies that ran for it, in order.
Logged(rs, id, how, target, ord) ==
  Append(rs.log, [id |-> id, how |-> how, target |-> target, was |-> rs.db.maps[id],
                  seen |-> rs.vault, tried |-> << >>])

\* the entry that ends the log of out is that of the orphan whose turn began in
\* rs: it gets the strategies that ran and the vault as the turn found it
Tried(rs, out, tried) ==
  [out EXCEPT !.log[Len(out.log)].tried = tried, !.log[Len(out.log)].seen = rs.vault]

\* relinkMapping that leaves the path of the mapping alone
relinkedDbHashOnly(db, id, path, content) ==
  LET m == [db.maps[id] EXCEPT !.lastSyncedHash = recoveryHashContent(content)] IN
  saveCallback([db EXCEPT !.maps = Put(db.maps, id, m), !.sett = Put(db.sett, id, m)])

\* relinkMapping that keeps the hash the mapping had
relinkedDbStaleHash(db, id, path, content) == updateMapping(db, id, path)

\* relinkMapping: the hash is assigned to the mapping object, then updateMapping
relinkedDb(db, id, path, content) ==
  LET m == [db.maps[id] EXCEPT !.lastSyncedHash = recoveryHashContent(content)] IN
  updateMapping([db EXCEPT !.maps = Put(db.maps, id, m), !.sett = Put(db.sett, id, m)], id, path)

relinkMapping(rs, id, path, how, ord) ==
  [db |-> relinkedDb(rs.db, id, path, rs.vault[path].c), vault |-> rs.vault,
   log |-> Logged(rs, id, how, path, ord)]

unlinkMapping(rs, id, how, ord) ==
  [db |-> removeMapping(rs.db, id), vault |-> rs.vault, log |-> Logged(rs, id, how, NoPath, ord)]

\* the answers of the user to the recovery dialog and to confirm()
Choices ==
  {[choice |-> "relink", confirmed |-> TRUE], [choice |-> "relink", confirmed |-> FALSE],
   [choice |-> "recreate", confirmed |-> FALSE], [choice |-> "ignore", confirmed |-> FALSE]}

promptForFileSelection(rs, id, ord, confirmed) ==
  LET b == Lower(Chars(getBasename(rs.db.maps[id].lastKnownPath)))
      potentialMatches ==
        SelectSeq(getMarkdownFiles(ord, rs.vault),
                  LAMBDA p : \/ IncludesChars(Lower(Chars(FileBasename(p))), b)
                             \/ IncludesChars(b, Lower(Chars(FileBasename(p)))))
  IN IF Len(potentialMatches) = 0 THEN unlinkMapping(rs, id, "no match", ord)
     ELSE IF confirmed THEN relinkMapping(rs, id, potentialMatches[1], "picked", ord)
     ELSE unlinkMapping(rs, id, "declined", ord)

recreateFromRemote(rs, id, ord) ==
  LET suggestedPath == rs.db.maps[id].lastKnownPath IN
  IF rs.vault[suggestedPath].ex THEN unlinkMapping(rs, id, "recreate failed", ord)
  ELSE relinkMapping([rs EXCEPT !.vault[suggestedPath] = File(Placeholder(id))],
                     id, suggestedPath, "recreated", ord)

promptUserForRecovery(rs, id, ord, ch) ==
  IF ch.choice = "relink" THEN promptForFileSelection(rs, id, ord, ch.confirmed)
  ELSE IF ch.choice = "recreate" THEN recreateFromRemote(rs, id, ord)
  ELSE unlinkMapping(rs, id, "ignored", ord)

\* the loop body of attemptRecovery with the content search ahead of the
\* basename search
RecoverContentFirst(rs, id, ord, ch) ==
  LET m == rs.db.maps[id]
      candidates == BasenameCandidates(ord, rs.vault, m)
      matchedFile == findByContent(ord, rs.vault, m)
      frontmatterMatch == findByFrontmatter(ord, rs.vault, id)
  IN IF matchedFile # NoPath
     THEN Tried(rs, relinkMapping(rs, id, matchedFile, "content", ord), <<"content">>)
     ELSE IF Len(candidates) = 1
     THEN Tried(rs, relinkMapping(rs, id, candidates[1], "basename", ord), <<"content", "basename">>)
     ELSE IF frontmatterMatch # NoPath
     THEN Tried(rs, relinkMapping(rs, id, frontmatterMatch, "frontmatter", ord),
                <<"content", "basename", "frontmatter">>)
     ELSE Tried(rs, promptUserForRecovery(rs, id, ord, ch),
                <<"content", "basename", "frontmatter", "manual">>)

\* the body of the loop of attemptRecovery for one orphan
Recover(rs, id, ord, ch) ==
  LET m == rs.db.maps[id]
      candidates == BasenameCandidates(ord, rs.vault, m)
      searched == Len(candidates) > 0 \/ Truthy(m.lastSyncedHash)
      matchedFile == IF searched THEN findByContent(ord, rs.vault, m) ELSE NoPath
      frontmatterMatch == findByFrontmatter(ord, rs.vault, id)
      upTo2 == IF searched THEN <<"basename", "content">> ELSE <<"basename">>
  IN IF Len(candidates) = 1
     THEN Tried(rs, relinkMapping(rs, id, candidates[1], "basename", ord), <<"basename">>)
     ELSE IF matchedFile # NoPath
     THEN Tried(rs, relinkMapping(rs, id, matchedFile, "content", ord), upTo2)
     ELSE IF frontmatterMatch # NoPath
     THEN Tried(rs, relinkMapping(rs, id, frontmatterMatch, "frontmatter", ord),
                upTo2 \o <<"frontmatter">>)
     ELSE Tried(rs, promptUserForRecovery(rs, id, ord, ch), upTo2 \o <<"frontmatter", "manual">>)

RECURSIVE attemptRecovery(_, _, _, _)
attemptRecovery(rs, orphanedMappings, ord, chs) ==
  IF Len(orphanedMappings) = 0 THEN rs
  ELSE attemptRecovery(Recover(rs, Head(orphanedMappings), ord, chs[Head(orphanedMappings)]),
                       Tail(orphanedMappings), ord, chs)

\* the mappings whose localPath names no file, in Map order
Orphans(maps, order, v) == SelectSeq(order, LAMBDA id : ~v[maps[id].localPath].ex)

reconcileMappings(rs, order, ord, chs) ==
  attemptRecovery(rs, Orphans(rs.db.maps, order, rs.vault), ord, chs)

OrphanIds == {id \in DOMAIN mappings : ~vault[mappings[id].localPath].ex}

\* the markdown files a run can meet: those that exist and those it may recreate
ListedPaths ==
  {p \in MdPaths : vault[p].ex \/ \E id \in OrphanIds : mappings[id].lastKnownPath = p}

\* reconcileMappings as the plugin runs it when it starts, before any listener
\* or timer exists
Reconcile(ord, chs) ==
  LET rs == reconcileMappings([db |-> Db, vault |-> vault, log |-> << >>], mapOrder, ord, chs) IN
  /\ subs = {}
  /\ timers = {}
  /\ SetDb(rs.db)
  /\ vault' = rs.vault
  /\ lastAct' = [Act("reconcile", NoId, NoPath, IF lastAct.op = "reconcile" THEN "rerun" ELSE "run",
                     rs.db.saved) EXCEPT !.log = rs.log]
  /\ UNCHANGED <<ksVars, clock, orchVars, editorBuf, store, subs, pendingModify, returned, burst>>

\* while the plugin is not running, a file appears
OfflineCreate(path, c) ==
  /\ ~vault[path].ex
  /\ vault' = [vault EXCEPT ![path] = File(c)]
  /\ lastAct' = ActC("offlineCreate", NoId, path, "ok", FALSE, c)
  /\ UNCHANGED <<ksVars, clock, storeVars, orchVars, editorBuf, store, subs, pendingModify, returned, burst>>

\* while the plugin is not running, a file moves
OfflineRename(oldPath, newPath) ==
  /\ vault[oldPath].ex
  /\ ~vault[newPath].ex
  /\ vault' = [vault EXCEPT ![oldPath] = NoFile, ![newPath] = vault[oldPath]]
  /\ lastAct' = Act("offlineRename", NoId, newPath, "ok", FALSE)
  /\ UNCHANGED <<ksVars, clock, storeVars, orchVars, editorBuf, store, subs, pendingModify, returned, burst>>

----------------------------------------------------------------------------
(* Specification of the recovery engine over the mapping store *)

RecContents == {Abc, addFrontmatterMetadata(Xyz, generateDocumentId(1, 0))}

\* the documents team mates have shared are in the external store
TeamStore == [k \in {ContentKey("t1", id) : id \in ForeignIds} |-> Xyz]

InitRecovery ==
  /\ clock = 1
  /\ vault = [p \in Paths |-> IF p \in {TodoMd, TodoTxt} THEN File(Abc) ELSE NoFile]
  /\ mappings = EmptyTable
  /\ mapOrder = << >>
  /\ settingsMappings = EmptyTable
  /\ persisted = EmptyTable
  /\ store = TeamStore
  /\ InitLocal

NextRecovery ==
  \/ \E p \in StorePaths, r \in Rands : Step(MaxRecSteps) /\ CallShareNewDocument(p, "t1", r, TRUE)
  \/ \E id \in ForeignIds, p \in StorePaths : Step(MaxRecSteps) /\ CallJoinSharedDocument(id, "t1", p, TRUE)
  \/ \E p \in StorePaths, q \in StorePaths : Step(MaxRecSteps) /\ FileRename(p, q)
  \/ \E p \in StorePaths : Step(MaxRecSteps) /\ FileDelete(p)
  \/ \E p \in StorePaths, c \in RecContents : Step(MaxRecSteps) /\ OfflineCreate(p, c)
  \/ \E p \in StorePaths, q \in StorePaths : Step(MaxRecSteps) /\ OfflineRename(p, q)
  \/ \E id \in DOMAIN mappings :
        Step(MaxRecSteps) /\ CallUpdateLastSyncedHash(id, Xyz, TRUE)
  \/ \E id \in DOMAIN mappings : Step(MaxRecSteps) /\ CallRemoveMapping(id, TRUE)
  \/ \E ord \in FileOrders(ListedPaths), chs \in [OrphanIds -> Choices] :
        Step(MaxRecSteps) /\ Reconcile(ord, chs)

SpecRecovery == InitRecovery /\ [][NextRecovery]_vars

----------------------------------------------------------------------------
(* Specification of the recovery engine in a vault of four notes *)

InitContent ==
  /\ clock = 1
  /\ vault = [p \in Paths |-> IF p \in {Todo2Md, ArchiveTodo2Md, TodoTxt} THEN File(Abc) ELSE NoFile]
  /\ mappings = EmptyTable
  /\ mapOrder = << >>
  /\ settingsMappings = EmptyTable
  /\ persisted = EmptyTable
  /\ store = TeamStore
  /\ InitLocal

NextContent ==
  \/ \E r \in Rands : Step(MaxContentSteps) /\ CallShareNewDocument(Todo2Md, "t1", r, TRUE)
  \/ \E p \in MdPaths, q \in MdPaths : Step(MaxContentSteps) /\ FileRename(p, q)
  \/ \E p \in MdPaths, c \in RecContents : Step(MaxContentSteps) /\ OfflineCreate(p, c)
  \/ \E p \in MdPaths, q \in MdPaths : Step(MaxContentSteps) /\ OfflineRename(p, q)
  \/ \E ord \in FileOrders(ListedPaths), chs \in [OrphanIds -> Choices] :
        Step(MaxContentSteps) /\ Reconcile(ord, chs)

SpecContent == InitContent /\ [][NextContent]_vars

----------------------------------------------------------------------------
(* The start of the plugin: initializePlugin *)

\* how one setupBidirectionalSync of the restart can end
Attempts == {"ok", "write fails", "listen fails"}

\* setupBidirectionalSync that registers the listener before it writes
setupBidirectionalSyncListenFirst(c, id, how) ==
  LET m == c.db.maps[id]
      c1 == listenToDoc(c, id, m.teamId, m.localPath)
      c2 == writeDoc(c1, id, m.teamId, m.localPath)
      c3 == listenersSet(c2, id, m.teamId, m.localPath)
  IN IF how = "write fails" THEN <<c, c1>>
     ELSE IF how = "listen fails" THEN <<c>>
     ELSE <<c, c1, c2, c3>>

\* setupBidirectionalSync(file, docId) that ends as how says: what the
\* controller works on before the call and after each step that ran (writeDoc,
\* listenToDoc, listeners.set)
setupBidirectionalSync(c, id, how) ==
  LET m == c.db.maps[id]
      c1 == writeDoc(c, id, m.teamId, m.localPath)
      c2 == listenToDoc(c1, id, m.teamId, m.localPath)
      c3 == listenersSet(c2, id, m.teamId, m.localPath)
  IN IF how = "write fails" THEN <<c>>
     ELSE IF how = "listen fails" THEN <<c, c1>>
     ELSE <<c, c1, c2, c3>>

\* what restoreAllSyncListeners notes of the mapping id: whether it tried, how
\* the attempt ended and how far it came
Restored(r, id, how, cs) ==
  LET m == r.c.db.maps[id] IN
  Append(r.log, [id |-> id, how |-> how,
                 steps |-> [i \in DOMAIN cs |-> Progress(cs[i], id, m.localPath, m.teamId)]])

\* restoreAllSyncListeners that gives up at the first attempt that fails
RECURSIVE restoreAllSyncListenersUntilFailure(_, _, _)
restoreAllSyncListenersUntilFailure(r, ids, hows) ==
  IF Len(ids) = 0 THEN r
  ELSE LET id == Head(ids)
           cs == setupBidirectionalSync(r.c, id, hows[id])
           next == [c |-> cs[Len(cs)], log |-> Restored(r, id, hows[id], cs)]
       IN IF ~r.c.vault[r.c.db.maps[id].localPath].ex
          THEN restoreAllSyncListenersUntilFailure(
                 [r EXCEPT !.log = Restored(r, id, "no file", << >>)], Tail(ids), hows)
          ELSE IF hows[id] # "ok" THEN next
          ELSE restoreAllSyncListenersUntilFailure(next, Tail(ids), hows)

\* restoreAllSyncListeners over the entries ids of settings.documentMappings;
\* r is [c, log], hows the way each attempt ends
RECURSIVE restoreAllSyncListeners(_, _, _)
restoreAllSyncListeners(r, ids, hows) ==
  IF Len(ids) = 0 THEN r
  ELSE LET id == Head(ids)
           cs == setupBidirectionalSync(r.c, id, hows[id])
       IN IF ~r.c.vault[r.c.db.maps[id].localPath].ex
          THEN restoreAllSyncListeners(
                 [r EXCEPT !.log = Restored(r, id, "no file", << >>)], Tail(ids), hows)
          ELSE restoreAllSyncListeners(
                 [c |-> cs[Len(cs)], log |-> Restored(r, id, hows[id], cs)], Tail(ids), hows)

\* initializePlugin of a new process: the services are constructed (no
\* listener, no timer, no flag), then reconcileMappings, then
\* restoreAllSyncListeners
Startup(ord, chs, hows) ==
  LET rs == reconcileMappings([db |-> Db, vault |-> vault, log |-> << >>], mapOrder, ord, chs)
      r == restoreAllSyncListeners(
             [c |-> [db |-> rs.db, vault |-> rs.vault, store |-> store, subs |-> {},
                     ignore |-> {}],
              log |-> << >>], rs.db.order, hows)
  IN /\ SetDb(r.c.db)
     /\ vault' = r.c.vault
     /\ store' = r.c.store
     /\ subs' = r.c.subs
     /\ ignoreNextChange' = {}
     /\ debounceTimers' = EmptyTable
     /\ timers' = {}
     /\ lastAct' = [Act("startup", NoId, NoPath, "ok", r.c.db.saved) EXCEPT !.log = r.log]
     /\ UNCHANGED <<ksVars, clock, editorBuf, pendingModify, returned, burst>>

\* initializePlugin of a new process when the files of gone are deleted while
\* it awaits between reconcileMappings and restoreAllSyncListeners
Restart(ord, chs, hows, gone) ==
  LET rs == reconcileMappings([db |-> Db, vault |-> vault, log |-> << >>], mapOrder, ord, chs)
      left == [p \in Paths |-> IF p \in gone THEN NoFile ELSE rs.vault[p]]
      r == restoreAllSyncListeners(
             [c |-> [db |-> rs.db, vault |-> left, store |-> store, subs |-> {},
                     ignore |-> {}],
              log |-> << >>], rs.db.order, hows)
  IN /\ SetDb(r.c.db)
     /\ vault' = r.c.vault
     /\ store' = r.c.store
     /\ subs' = r.c.subs
     /\ ignoreNextChange' = {}
     /\ debounceTimers' = EmptyTable
     /\ timers' = {}
     /\ lastAct' = [Act("restart", NoId, NoPath, "ok", r.c.db.saved) EXCEPT !.log = r.log]
     /\ UNCHANGED <<ksVars, clock, editorBuf, pendingModify, returned, burst>>

InitStart == InitRecovery

NextStart ==
  \/ \E p \in StorePaths, r \in Rands : Step(MaxStartSteps) /\ CallShareNewDocument(p, "t1", r, TRUE)
  \/ \E id \in ForeignIds, p \in StorePaths :
        Step(MaxStartSteps) /\ CallJoinSharedDocument(id, "t1", p, TRUE)
  \/ \E p \in StorePaths, q \in StorePaths : Step(MaxStartSteps) /\ OfflineRename(p, q)
  \/ \E ord \in FileOrders(ListedPaths), chs \in [OrphanIds -> Choices],
        hows \in [DOMAIN mappings -> Attempts] :
        Step(MaxStartSteps) /\ Startup(ord, chs, hows)

SpecStart == InitStart /\ [][NextStart]_vars

\* Specification of the start of the plugin in a vault that changes meanwhile
NextRestart ==
  \/ \E p \in StorePaths, r \in Rands : Step(MaxRestartSteps) /\ CallShareNewDocument(p, "t1", r, TRUE)
  \/ \E p \in StorePaths, c \in SyncContents : Step(MaxRestartSteps) /\ OfflineCreate(p, c)
  \/ \E ord \in FileOrders(ListedPaths), chs \in [OrphanIds -> Choices],
        hows \in [DOMAIN mappings -> Attempts], gone \in SUBSET SyncPaths :
        Step(MaxRestartSteps) /\ Restart(ord, chs, hows, gone)

SpecRestart == InitStart /\ [][NextRestart]_vars

----------------------------------------------------------------------------
(* Specification of the controller with the settings tab *)

\* the Unshare button of a row of the settings tab calls removeMapping(docId)
\* of the mapping manager, and nothing of the SharedNoteManager
NextSettings ==
  \/ \E p \in SyncPaths, r \in Rands : Step(MaxSettingsSteps) /\ Share(p, "t1", r)
  \/ \E s \in subs, c \in SyncContents : Step(MaxSettingsSteps) /\ RemoteNotify(s, c)
  \/ \E p \in SyncPaths : Step(MaxSettingsSteps) /\ ModifyEvent(p)
  \/ \E p \in SyncPaths : Step(MaxSettingsSteps) /\ Unshare(p)
  \/ \E id \in DOMAIN mappings : Step(MaxSettingsSteps) /\ CallRemoveMapping(id, TRUE)

SpecSettings == InitSync /\ [][NextSettings]_vars

----------------------------------------------------------------------------
(* Specification of the tag in the leading metadata block *)

\* the lines a note is made of, and the notes of up to MaxLines lines
TagLines == {Delim, Blank, Text("abc"), TagLine(generateDocumentId(1, 0))}

TagContents == UNION {[1..n -> TagLines] : n \in 1..MaxLines}

\* addFrontmatterMetadata(file, documentId): read, insert, vault.modify
AddTag(path, id) ==
  /\ vault[path].ex
  /\ vault' = [vault EXCEPT ![path] = File(addFrontmatterMetadata(vault[path].c, id))]
  /\ lastAct' = ActC("addTag", id, path, "ok", FALSE, vault[path].c)
  /\ UNCHANGED <<ksVars, clock, storeVars, orchVars, editorBuf, store, subs, pendingModify, returned, burst>>

\* removeFrontmatterMetadata(file): read, remove, vault.modify when a tag was found
RemoveTag(path) ==
  LET r == removeFrontmatterMetadata(vault[path].c) IN
  /\ vault[path].ex
  /\ vault' = [vault EXCEPT ![path] = File(r.lines)]
  /\ lastAct' = ActC("removeTag", NoId, path, IF r.write THEN "written" ELSE "left", FALSE,
                     vault[path].c)
  /\ UNCHANGED <<ksVars, clock, storeVars, orchVars, editorBuf, store, subs, pendingModify, returned, burst>>

InitTag ==
  /\ clock = 1
  /\ \E c \in TagContents : vault = [p \in Paths |-> IF p = TodoMd THEN File(c) ELSE NoFile]
  /\ mappings = EmptyTable
  /\ mapOrder = << >>
  /\ settingsMappings = EmptyTable
  /\ persisted = EmptyTable
  /\ InitRest

NextTag ==
  \/ \E r \in Rands : Step(MaxTagSteps) /\ AddTag(TodoMd, generateDocumentId(1, r))
  \/ Step(MaxTagSteps) /\ RemoveTag(TodoMd)

SpecTag == InitTag /\ [][NextTag]_vars

----------------------------------------------------------------------------
(* Specification of the orchestrator in a vault of two notes *)

InitPaths ==
  /\ clock = 1
  /\ vault = [p \in Paths |-> IF p = TodoMd THEN File(Abc) ELSE IF p = Todo2Md THEN File(Xyz) ELSE NoFile]
  /\ mappings = EmptyTable
  /\ mapOrder = << >>
  /\ settingsMappings = EmptyTable
  /\ persisted = EmptyTable
  /\ InitRest

NextPaths ==
  \/ \E p \in StorePaths, r \in Rands : Step(MaxPathSteps) /\ Share(p, "t1", r)
  \/ \E s \in subs : Step(MaxPathSteps) /\ RemoteNotify(s, Abc)
  \/ \E p \in StorePaths : Step(MaxPathSteps) /\ ModifyEvent(p)
  \/ \E p \in StorePaths : Step(MaxPathSteps) /\ LocalModify(p, Xyz)
  \/ \E p \in StorePaths, q \in StorePaths : Step(MaxPathSteps) /\ FileRename(p, q)
  \/ \E t \in timers : Step(MaxPathSteps) /\ FireTimer(t, TRUE)

SpecPaths == InitPaths /\ [][NextPaths]_vars

----------------------------------------------------------------------------
(* Specification of the orchestrator with the timers of the event loop *)

\* Up to MaxEditSteps shares, edits and renames happen; the event loop runs
\* the callback of every timer that is not cleared, 500 ms after it was set.
NextFlush ==
  \/ \E p \in SyncPaths, r \in Rands : Step(MaxEditSteps) /\ Share(p, "t1", r)
  \/ \E p \in SyncPaths : Step(MaxEditSteps) /\ ModifyEvent(p)
  \/ \E p \in SyncPaths, c \in SyncContents : Step(MaxEditSteps) /\ LocalModify(p, c)
  \/ \E p \in SyncPaths, c \in SyncContents : Step(MaxEditSteps) /\ EditorChange(p, c)
  \/ \E p \in SyncPaths, q \in SyncPaths : Step(MaxEditSteps) /\ FileRename(p, q)
  \/ \E t \in timers, io \in BOOLEAN : FireTimer(t, io) /\ UNCHANGED steps

\* the step of the event loop that runs the callback of a pending timer, by
\* its effect on timers: in NextFlush only FireTimer takes one timer away and
\* sets none (C36_OnlyFiringRemoves)
TimerFires == \E t \in timers : timers' = timers \ {t}

\* setTimeout: a timer that stays pending is run
SpecFlush ==
  /\ InitSync
  /\ [][NextFlush]_vars
  /\ WF_timers(TimerFires)

----------------------------------------------------------------------------
(* Specification of the orchestrator with remote writes that may fail *)

NextFail ==
  \/ \E p \in SyncPaths, r \in Rands : Step(MaxFailSteps) /\ Share(p, "t1", r)
  \/ \E s \in subs, c \in SyncContents : Step(MaxFailSteps) /\ RemoteNotify(s, c)
  \/ \E s \in subs, c \in SyncContents : Step(MaxFailSteps) /\ RemoteWriteFails(s, c)
  \/ \E p \in SyncPaths : Step(MaxFailSteps) /\ ModifyEvent(p)
  \/ \E p \in SyncPaths, c \in SyncContents : Step(MaxFailSteps) /\ LocalModify(p, c)
  \/ \E p \in SyncPaths, c \in SyncContents : Step(MaxFailSteps) /\ EditorChange(p, c)
  \/ \E t \in timers : Step(MaxFailSteps) /\ FireTimer(t, TRUE)

SpecFail == InitSync /\ [][NextFail]_vars

----------------------------------------------------------------------------
(* The connection to the sync server: KeepsyncService *)

Callbacks == {"cb1", "cb2"}

\* notifyReconnect: the callbacks it calls, in order; a callback that throws
\* is logged and the loop goes on
notifyReconnect(cbs) == cbs

\* initialize(serverUrl), ok when configureSyncEngine and whenReady resolve:
\* the service after it, how it ended and the callbacks it notified
initialize(ks, ok) ==
  LET wasInitialized == ks.initialized IN
  IF ks.initialized THEN [ks |-> ks, result |-> "already", called |-> << >>]
  ELSE IF ~ok THEN [ks |-> ks, result |-> "failed", called |-> << >>]
  ELSE [ks |-> [ks EXCEPT !.initialized = TRUE], result |-> "ready",
        called |-> IF wasInitialized THEN notifyReconnect(ks.onReconnectCallbacks) ELSE << >>]

shutdown(ks) == [ks EXCEPT !.initialized = FALSE]

onReconnect(ks, cb) == [ks EXCEPT !.onReconnectCallbacks = Append(@, cb)]

\* indexOf(callback), or 0
RECURSIVE IndexOf(_, _, _)
IndexOf(cbs, cb, i) ==
  IF i > Len(cbs) THEN 0 ELSE IF cbs[i] = cb THEN i ELSE IndexOf(cbs, cb, i + 1)

removeReconnectCallback(ks, cb) ==
  LET i == IndexOf(ks.onReconnectCallbacks, cb, 1) IN
  IF i = 0 THEN ks
  ELSE [ks EXCEPT !.onReconnectCallbacks = SubSeq(@, 1, i - 1) \o SubSeq(@, i + 1, Len(@))]

KsUnchanged ==
  UNCHANGED <<clock, vault, storeVars, orchVars, editorBuf, store, subs, pendingModify, returned, burst,
              autoSync>>

CallInitialize(ok) ==
  LET r == initialize(keepsyncService, ok) IN
  /\ keepsyncService' = r.ks
  /\ everReady' = (everReady \/ r.result = "ready")
  /\ lastAct' = [Act("initialize", NoId, NoPath, r.result, FALSE)
                   EXCEPT !.log = r.called, !.io = ok, !.threw = (r.result = "failed")]
  /\ KsUnchanged

CallShutdown ==
  /\ keepsyncService' = shutdown(keepsyncService)
  /\ lastAct' = Act("shutdown", NoId, NoPath, "ok", FALSE)
  /\ UNCHANGED everReady
  /\ KsUnchanged

CallOnReconnect(cb) ==
  /\ Len(keepsyncService.onReconnectCallbacks) < MaxCallbacks
  /\ keepsyncService' = onReconnect(keepsyncService, cb)
  /\ lastAct' = Act("onReconnect", NoId, NoPath, cb, FALSE)
  /\ UNCHANGED everReady
  /\ KsUnchanged

CallRemoveReconnectCallback(cb) ==
  /\ keepsyncService' = removeReconnectCallback(keepsyncService, cb)
  /\ lastAct' = Act("removeReconnectCallback", NoId, NoPath, cb, FALSE)
  /\ UNCHANGED everReady
  /\ KsUnchanged

InitKeepsync == InitStore

NextKeepsync ==
  \/ \E ok \in BOOLEAN : Step(MaxKeepsyncSteps) /\ CallInitialize(ok)
  \/ Step(MaxKeepsyncSteps) /\ CallShutdown
  \/ \E cb \in Callbacks : Step(MaxKeepsyncSteps) /\ CallOnReconnect(cb)
  \/ \E cb \in Callbacks : Step(MaxKeepsyncSteps) /\ CallRemoveReconnectCallback(cb)

SpecKeepsync == InitKeepsync /\ [][NextKeepsync]_vars

----------------------------------------------------------------------------
(* Automatic sync of the documents of a team: TeamAutoSyncService *)

\* the documents of the team and metadata.originalName of each, less '.md'
AutoDocs == ForeignIds

originalName(id) == IF id.rnd = 0 THEN "Todo" ELSE "Note"

\* the team index, and the list getTeamDocuments returns
TeamIndices == {q \in UNION {[1..n -> AutoDocs] : n \in 1..2} : \A i, j \in DOMAIN q : q[i] = q[j] => i = j}

\* name, 'name (1)', 'name (2)' in teamSyncFolder
Numbered(name, counter) ==
  CASE counter = 0 -> name
    [] counter = 1 /\ name = "Todo" -> "Todo (1)"
    [] counter = 2 /\ name = "Todo" -> "Todo (2)"
    [] counter = 1 /\ name = "Note" -> "Note (1)"
    [] counter = 2 /\ name = "Note" -> "Note (2)"

AutoPath(name, counter) == Path("Team", Numbered(name, counter), "md")

\* generateAutoSyncPath: the first of the numbered paths at which nothing is
RECURSIVE FreePath(_, _, _)
FreePath(files, name, counter) ==
  IF AutoPath(name, counter) \notin files THEN AutoPath(name, counter)
  ELSE FreePath(files, name, counter + 1)

generateAutoSyncPath(files, originalNameOfDoc) == FreePath(files, originalNameOfDoc, 0)

\* the run goes on to what is left of its list, or ends
DocDone(run) ==
  LET left == Tail(run.todo) IN
  IF Len(left) = 0 THEN IdleRun
  ELSE [run EXCEPT !.todo = left, !.path = NoPath, !.pc = IF run.kind = "index" THEN "meta" ELSE "all"]

\* autoSyncDocument up to its await of readDoc(contentPath): the path is chosen
PathChosen(run, files) ==
  [run EXCEPT !.path = generateAutoSyncPath(files, originalName(Head(run.todo))), !.pc = "create"]

\* createLocalFile: vault.create rejects at a path that is taken, and null is
\* returned; a file that was created is noted with the document it is for
createLocalFile(a, r) ==
  LET run == a.runs[r] IN
  IF run.path \in a.files THEN [a EXCEPT !.runs[r] = DocDone(run)]
  ELSE [a EXCEPT !.files = a.files \cup {run.path},
                 !.created = a.created \cup {[id |-> Head(run.todo), path |-> run.path]},
                 !.runs[r].pc = "join"]

AutoUnchanged ==
  UNCHANGED <<keepsyncService, everReady, clock, vault, orchVars, editorBuf, store, subs,
              pendingModify, returned, lastAct, burst>>

\* handleTeamIndexChange(teamId, {teamIndex}) up to its first await: the new
\* documents are those settings.documentMappings does not hold for the team
HandleTeamIndexChange(r, teamIndex) ==
  LET newDocuments ==
        SelectSeq(teamIndex, LAMBDA d : ~(d \in DOMAIN settingsMappings
                                           /\ settingsMappings[d].teamId = "t1"))
  IN /\ autoSync.runs[r].pc = "idle"
     /\ autoSync' = IF Len(newDocuments) = 0 THEN autoSync
                    ELSE [autoSync EXCEPT !.runs[r] = [pc |-> "meta", kind |-> "index",
                                                       todo |-> newDocuments, path |-> NoPath]]
     /\ AutoUnchanged /\ UNCHANGED storeVars

\* readDoc(metadataPath) of autoSyncDocument has answered
MetadataRead(r, found) ==
  /\ autoSync.runs[r].pc = "meta"
  /\ autoSync' = [autoSync EXCEPT !.runs[r] = IF found THEN PathChosen(@, autoSync.files)
                                              ELSE DocDone(@)]
  /\ AutoUnchanged /\ UNCHANGED storeVars

\* syncAllTeamDocuments(teamId) up to its await of getTeamDocuments
SyncAllTeamDocuments(r, documents) ==
  /\ autoSync.runs[r].pc = "idle"
  /\ autoSync' = [autoSync EXCEPT !.runs[r] = [pc |-> "all", kind |-> "all",
                                              todo |-> documents, path |-> NoPath]]
  /\ AutoUnchanged /\ UNCHANGED storeVars

\* the documents of the list that findMappingById knows are passed over
RECURSIVE Unmapped(_, _)
Unmapped(maps, docs) ==
  IF Len(docs) = 0 \/ Head(docs) \notin DOMAIN maps THEN docs ELSE Unmapped(maps, Tail(docs))

\* the loop of syncAllTeamDocuments from one await to the next
SyncAllLoop(r) ==
  LET run == autoSync.runs[r]
      left == Unmapped(mappings, run.todo)
  IN /\ run.pc = "all"
     /\ autoSync' = [autoSync EXCEPT !.runs[r] =
                       IF Len(left) = 0 THEN IdleRun
                       ELSE PathChosen([run EXCEPT !.todo = left], autoSync.files)]
     /\ AutoUnchanged /\ UNCHANGED storeVars

\* readDoc(contentPath) has answered: createLocalFile
CreateLocalFile(r) ==
  /\ autoSync.runs[r].pc = "create"
  /\ autoSync' = createLocalFile(autoSync, r)
  /\ AutoUnchanged /\ UNCHANGED storeVars

\* vault.create has answered: joinSharedDocument, whose throw is caught and logged
JoinCreated(r) ==
  LET run == autoSync.runs[r] IN
  /\ run.pc = "join"
  /\ SetDb(joinSharedDocument(Db, Head(run.todo), "t1", run.path, clock))
  /\ autoSync' = [autoSync EXCEPT !.runs[r] = DocDone(run)]
  /\ AutoUnchanged

InitAuto == InitStore

NextAuto ==
  \/ \E r \in Runs, ti \in TeamIndices : Step(MaxAutoSteps) /\ HandleTeamIndexChange(r, ti)
  \/ \E r \in Runs, found \in BOOLEAN : Step(MaxAutoSteps) /\ MetadataRead(r, found)
  \/ \E r \in Runs, ds \in TeamIndices : Step(MaxAutoSteps) /\ SyncAllTeamDocuments(r, ds)
  \/ \E r \in Runs : Step(MaxAutoSteps) /\ SyncAllLoop(r)
  \/ \E r \in Runs : Step(MaxAutoSteps) /\ CreateLocalFile(r)
  \/ \E r \in Runs : Step(MaxAutoSteps) /\ JoinCreated(r)

SpecAuto == InitAuto /\ [][NextAuto]_vars

----------------------------------------------------------------------------
(* Claims about the orchestrator *)

\* the step is an operation, and it is op
Returned(op) == steps' # steps /\ lastAct'.op = op

Mapped(path) == findMappingByPath(mappings, mapOrder, path) # NoId

\* C1: when the listener has applied a remote update to the file at a mapped
\* path and the vault then delivers the modify notification for that path, the
\* handler consumes it: no timer is started or replaced, nothing is pushed or
\* recorded, and the path's ignore flag is gone afterwards.
C1_RemoteEchoConsumed ==
  [][(/\ lastAct.op = "remote" /\ lastAct.result = "applied"
      /\ Returned("modifyEvent") /\ lastAct'.path = lastAct.path
      /\ Mapped(lastAct.path))
     => /\ lastAct'.result = "consumed"
        /\ timers' = timers /\ debounceTimers' = debounceTimers
        /\ store' = store /\ UNCHANGED storeVars
        /\ lastAct.path \notin ignoreNextChange']_vars

\* share, notification of the share's own write, remote update, its notification
C1_Witness ==
  /\ steps = 4 /\ lastAct.op = "modifyEvent" /\ lastAct.result = "consumed"
  /\ \A p \in Paths : pendingModify[p] = 0
  /\ lastAct.path \notin ignoreNextChange
  /\ \E t \in timers : t.key = lastAct.path

\* C2: a path never has two live timers, and when the timer of a mapped path
\* fires after a run of N >= 1 edits of that path, each made while the timer of
\* the one before was still pending, that one firing flushes, with the content
\* of the last edit, and leaves no timer for the path.
C2_BurstFlushesOnceWithLast ==
  [][/\ \A t1 \in timers', t2 \in timers' : t1.key = t2.key => t1 = t2
     /\ \A t \in timers :
          (/\ Returned("fire") /\ t \notin timers'
           /\ burst[t.key].clean /\ Mapped(t.file))
          => /\ burst[t.key].n >= 1
             /\ lastAct'.result = "flushed"
             /\ lastAct'.content = burst[t.key].last
             /\ lastAct'.content = FlushContent(t)
             /\ ~\E u \in timers' : u.key = t.key]_vars

\* C3: a firing that flushes writes the flushed content to the store under the
\* content key of the document.
C3_FlushWritesStore ==
  [][(Returned("fire") /\ lastAct'.result = "flushed")
     => \E id \in DOMAIN mappings :
          /\ id = lastAct'.id
          /\ ContentKey(mappings[id].teamId, id) \in DOMAIN store'
          /\ store'[ContentKey(mappings[id].teamId, id)] = lastAct'.content]_vars

----------------------------------------------------------------------------
(* Claims about the recovery engine *)

StoreUnchanged ==
  /\ mappings' = mappings
  /\ mapOrder' = mapOrder
  /\ settingsMappings' = settingsMappings
  /\ persisted' = persisted
  /\ ~lastAct'.saved

\* the number of markdown files of vault v with the basename of path
BasenameCount(v, path) ==
  Cardinality({p \in MdPaths : v[p].ex /\ FileBasename(p) = getBasename(path)})

\* content c hashes to h, under the hash of the store or that of the recovery
HashesTo(c, h) == hashContent(c) = h \/ recoveryHashContent(c) = h

\* C5: with the one mapping of 'Notes/Todo.md' (content 'abc', team 't1') moved
\* to 'Notes/Todo2.md', that file gone and 'Archive/Todo2.md' holding 'abc',
\* reconcile relinks the mapping to 'Archive/Todo2.md' by the basename
\* strategy and lastSyncedHash is still hash('abc').
C5_EndToEndRelink ==
  [][\A id \in DOMAIN mappings :
       (/\ Returned("reconcile")
        /\ DOMAIN mappings = {id}
        /\ mappings[id].localPath = Todo2Md /\ mappings[id].lastKnownPath = TodoMd
        /\ mappings[id].teamId = "t1" /\ mappings[id].lastSyncedHash = hashContent(Abc)
        /\ ~vault[TodoMd].ex /\ ~vault[Todo2Md].ex /\ vault[ArchiveTodo2Md] = File(Abc))
       => /\ id \in DOMAIN mappings'
          /\ mappings'[id].localPath = ArchiveTodo2Md
          /\ Len(lastAct'.log) = 1 /\ lastAct'.log[1].how = "basename"
          /\ mappings'[id].lastSyncedHash = hashContent(Abc)]_vars

\* C6: a reconcile that directly follows a reconcile relinks nothing: it logs
\* no orphan, leaves every mapping record and the vault as they are and does
\* not save.
C6_SecondReconcileIdle ==
  [][(lastAct.op = "reconcile" /\ Returned("reconcile"))
     => /\ lastAct'.log = << >>
        /\ StoreUnchanged
        /\ vault' = vault]_vars

\* share, offline change, a reconcile that relinked (only a relink leaves a
\* SHA-256 hash), a second reconcile
C6_Witness ==
  /\ steps = 4 /\ lastAct.op = "reconcile" /\ lastAct.result = "rerun" /\ lastAct.log = << >>
  /\ \E id \in DOMAIN mappings : mappings[id].lastSyncedHash.fn = "sha256"

\* C7: an orphan with lastSyncedHash H whose basename strategy does not give
\* exactly one candidate, while some markdown file's content hashes to H, is
\* relinked to a file whose content hashes to H.
C7_ExactHashRelinks ==
  [][Returned("reconcile") =>
       \A i \in DOMAIN lastAct'.log :
         LET e == lastAct'.log[i] IN
         (/\ Truthy(e.was.lastSyncedHash)
          /\ BasenameCount(e.seen, e.was.lastKnownPath) # 1
          /\ \E p \in MdPaths : e.seen[p].ex /\ HashesTo(e.seen[p].c, e.was.lastSyncedHash))
         => /\ e.target # NoPath
            /\ HashesTo(e.seen[e.target].c, e.was.lastSyncedHash)
            /\ e.id \in DOMAIN mappings' /\ mappings'[e.id].localPath = e.target]_vars

\* the content strategy was not tried, or found no file
ContentStrategyFails(e) ==
  \/ BasenameCount(e.seen, e.was.lastKnownPath) = 0 /\ ~Truthy(e.was.lastSyncedHash)
  \/ \A p \in MdPaths : e.seen[p].ex => ~ContentMatches(e.seen[p].c, e.was)

\* C8: an orphan for which the basename strategy and the content strategy fail,
\* while a markdown file carries its documentId in the hivemind-id tag, is
\* relinked by the frontmatter strategy to a file whose tag is its documentId.
C8_FrontmatterRelinks ==
  [][Returned("reconcile") =>
       \A i \in DOMAIN lastAct'.log :
         LET e == lastAct'.log[i] IN
         (/\ BasenameCount(e.seen, e.was.lastKnownPath) # 1
          /\ ContentStrategyFails(e)
          /\ \E p \in MdPaths : e.seen[p].ex /\ FrontmatterId(e.seen[p].c) = e.id)
         => /\ e.how = "frontmatter"
            /\ FrontmatterId(e.seen[e.target].c) = e.id
            /\ e.id \in DOMAIN mappings' /\ mappings'[e.id].localPath = e.target]_vars

\* relinked by the tag to a file with another basename and another content
C8_Witness ==
  /\ lastAct.op = "reconcile"
  /\ \E i \in DOMAIN lastAct.log :
       LET e == lastAct.log[i] IN
       /\ e.how = "frontmatter"
       /\ FileBasename(e.target) # getBasename(e.was.lastKnownPath)
       /\ vault[e.target].c # Abc
       /\ e.id \in DOMAIN mappings /\ mappings[e.id].localPath = e.target

----------------------------------------------------------------------------
(* Claims about the mapping store *)

\* C4: every create (shareNewDocument) returns a documentId that no earlier
\* create returned and that the table did not hold, and right after it
\* findById(id) yields a record whose localPath is the path of the shared file.
C4_CreateReturnsFreshId ==
  [][Returned("create") /\ lastAct'.result = "ok" =>
       /\ lastAct'.id \notin returned
       /\ lastAct'.id \notin DOMAIN mappings
       /\ findMappingById(mappings', lastAct'.id) = lastAct'.id
       /\ mappings'[lastAct'.id].localPath = lastAct'.path]_vars

\* C9: join(documentId, teamId, localPath) fails with the conflict error when
\* documentId is already mapped and with the invalid-argument error when
\* localPath is empty; in both cases the table is unchanged and the save hook
\* is not invoked.
C9_JoinRejects ==
  [][Returned("join") =>
       /\ lastAct'.id \in DOMAIN mappings =>
            lastAct'.result = "already mapped" /\ StoreUnchanged
       /\ lastAct'.id \notin DOMAIN mappings /\ lastAct'.path = NoPath =>
            lastAct'.result = "path required" /\ StoreUnchanged]_vars

\* a join of a mapped id was rejected
C9_Witness ==
  /\ lastAct.op = "join"
  /\ lastAct.result = "already mapped"
  /\ lastAct.id \in DOMAIN mappings
  /\ mappings[lastAct.id].localPath # lastAct.path

\* C10: updatePath(documentId, newPath) on a known id sets lastKnownPath to the
\* previous localPath and localPath to newPath and leaves documentId, teamId,
\* lastSyncedHash, sharedAt and sharedBy alone; on an unknown id it fails with
\* the not-found error and changes nothing.
C10_UpdatePath ==
  [][Returned("updatePath") =>
       LET id == lastAct'.id IN
       IF id \in DOMAIN mappings
       THEN /\ lastAct'.result = "ok"
            /\ id \in DOMAIN mappings'
            /\ mappings'[id].lastKnownPath = mappings[id].localPath
            /\ mappings'[id].localPath = lastAct'.path
            /\ mappings'[id].documentId = mappings[id].documentId
            /\ mappings'[id].teamId = mappings[id].teamId
            /\ mappings'[id].lastSyncedHash = mappings[id].lastSyncedHash
            /\ mappings'[id].sharedAt = mappings[id].sharedAt
            /\ mappings'[id].sharedBy = mappings[id].sharedBy
       ELSE lastAct'.result = "no mapping" /\ StoreUnchanged]_vars

\* an updatePath moved a known mapping to another path
C10_Witness ==
  /\ lastAct.op = "updatePath"
  /\ lastAct.result = "ok"
  /\ mappings[lastAct.id].localPath = lastAct.path
  /\ mappings[lastAct.id].lastKnownPath # lastAct.path

\* the operation that just returned changed the table or its records
Mutating ==
  \/ Returned("create") /\ lastAct'.result = "ok"
  \/ Returned("join") /\ lastAct'.result = "ok"
  \/ Returned("updatePath") /\ lastAct'.result = "ok"
  \/ Returned("updateHash") /\ lastAct'.id \in DOMAIN mappings
  \/ Returned("remove")

\* C11: create, join, updatePath, updateHash of a known id and remove each
\* invoke the save hook before they return; when the hook succeeds what it
\* wrote is the full updated table, and when it fails the operation fails.
C11_SaveHookAwaited ==
  [][Mutating =>
       /\ lastAct'.saved
       /\ lastAct'.io => ~lastAct'.threw /\ persisted' = mappings'
       /\ ~lastAct'.io => lastAct'.threw]_vars

\* an updatePath whose save failed: the caller got the error, the table moved on
C11_Witness ==
  /\ lastAct.op = "updatePath" /\ lastAct.result = "ok"
  /\ lastAct.saved /\ lastAct.threw
  /\ persisted # mappings

\* C12: no two mappings of the table have the same localPath.
C12_LocalPathUnique ==
  \A a \in DOMAIN mappings, b \in DOMAIN mappings :
    a # b => mappings[a].localPath # mappings[b].localPath

\* C13: the record kept under key k has documentId k, in the table and in the
\* settings, and no step changes the documentId of a record that stays.
C13_DocumentIdFixed ==
  [][/\ \A k \in DOMAIN mappings' : mappings'[k].documentId = k
     /\ \A k \in DOMAIN settingsMappings' : settingsMappings'[k].documentId = k
     /\ \A k \in DOMAIN mappings \cap DOMAIN mappings' :
          mappings'[k].documentId = mappings[k].documentId]_vars

\* a reconcile relinked a mapping, and its record kept its documentId
C13_Witness ==
  /\ lastAct.op = "reconcile"
  /\ \E i \in DOMAIN lastAct.log :
       LET e == lastAct.log[i] IN
       /\ e.target # NoPath /\ e.id \in DOMAIN mappings
       /\ mappings[e.id].localPath = e.target /\ mappings[e.id].localPath # e.was.localPath
       /\ mappings[e.id].documentId = e.was.documentId /\ e.was.documentId = e.id

\* the place of a strategy in the order of attemptRecovery
StrategyRank(name) ==
  CASE name = "basename" -> 1 [] name = "content" -> 2 [] name = "frontmatter" -> 3
    [] name = "manual" -> 4

\* C14: for each orphan, reconcile runs the strategies in the order basename,
\* content, embedded identifier, manual (the content search is left out only
\* where it cannot match: no candidate and an empty lastSyncedHash); the
\* strategy that relinks the mapping is the last one that ran, and each one
\* that ran before it found nothing.
C14_StrategyOrder ==
  [][Returned("reconcile") =>
       \A i \in DOMAIN lastAct'.log :
         LET e == lastAct'.log[i]
             t == e.tried
             last == t[Len(t)]
             auto == e.how \in {"basename", "content", "frontmatter"}
         IN /\ Len(t) >= 1 /\ t[1] = "basename"
            /\ \A j \in 1..(Len(t) - 1) : StrategyRank(t[j]) < StrategyRank(t[j + 1])
            /\ IF auto THEN last = e.how ELSE last = "manual"
            /\ "content" \notin {t[j] : j \in DOMAIN t}
                 => \/ last = "basename"
                    \/ /\ ~Truthy(e.was.lastSyncedHash)
                       /\ \A p \in MdPaths : e.seen[p].ex => ~ContentMatches(e.seen[p].c, e.was)
            /\ StrategyRank(last) >= 3 => "frontmatter" \in {t[j] : j \in DOMAIN t}
            /\ StrategyRank(last) > 1 => BasenameCount(e.seen, e.was.lastKnownPath) # 1
            /\ StrategyRank(last) > 2 => ContentStrategyFails(e)
            /\ StrategyRank(last) > 3
                 => \A p \in MdPaths : e.seen[p].ex => FrontmatterId(e.seen[p].c) # e.id
            /\ auto => /\ e.id \in DOMAIN mappings'
                       /\ e.target # NoPath]_vars

\* one reconcile in which an orphan was relinked by its content after the
\* basename search gave no single file, and another went to the manual decision
C14_Witness ==
  /\ lastAct.op = "reconcile"
  /\ \E i \in DOMAIN lastAct.log :
       /\ lastAct.log[i].how = "content"
       /\ lastAct.log[i].tried = <<"basename", "content">>
  /\ \E i \in DOMAIN lastAct.log :
       lastAct.log[i].tried = <<"basename", "content", "frontmatter", "manual">>

\* the three automatic strategies find nothing for the orphan of entry e
AutomaticFail(e) ==
  /\ BasenameCount(e.seen, e.was.lastKnownPath) # 1
  /\ ContentStrategyFails(e)
  /\ \A p \in MdPaths : e.seen[p].ex => FrontmatterId(e.seen[p].c) # e.id

\* C15: an orphan for which the three automatic strategies fail reaches the
\* manual decision, and ends in one of three ways: relinked to a file that
\* existed, relinked to a file the run created, or removed because the user
\* gave it up (the remove button, or a refused confirmation).
C15_ManualOutcomes ==
  [][Returned("reconcile") =>
       \A i \in DOMAIN lastAct'.log :
         LET e == lastAct'.log[i] IN
         AutomaticFail(e)
         => /\ e.tried[Len(e.tried)] = "manual"
            /\ \/ /\ e.id \in DOMAIN mappings' /\ mappings'[e.id].localPath = e.target
                  /\ e.seen[e.target].ex
               \/ /\ e.id \in DOMAIN mappings' /\ mappings'[e.id].localPath = e.target
                  /\ ~e.seen[e.target].ex /\ vault'[e.target].ex
               \/ /\ e.id \notin DOMAIN mappings'
                  /\ e.how \in {"ignored", "declined"}]_vars

\* C16: when the manual decision is to recreate, the mapping stays, relinked
\* to a file the run created, and the content of that file is the content the
\* external store holds for the documentId.
C16_RecreateFromRemote ==
  [][Returned("reconcile") =>
       \A i \in DOMAIN lastAct'.log :
         LET e == lastAct'.log[i]
             key == ContentKey(e.was.teamId, e.id)
         IN e.how \in {"recreated", "recreate failed"}
            => /\ e.id \in DOMAIN mappings'
               /\ ~e.seen[mappings'[e.id].localPath].ex
               /\ vault'[mappings'[e.id].localPath].ex
               /\ key \in DOMAIN store
                    => vault'[mappings'[e.id].localPath].c = store[key]]_vars

\* C17: every relink of a reconcile, by a strategy or by the manual decision,
\* leaves the mapping with localPath the target, lastKnownPath the localPath it
\* had, and lastSyncedHash the recovery hash of the content of the target; the
\* change is saved.
C17_RelinkSideEffect ==
  [][Returned("reconcile") =>
       \A i \in DOMAIN lastAct'.log :
         LET e == lastAct'.log[i] IN
         e.target # NoPath
         => /\ e.id \in DOMAIN mappings'
            /\ vault'[e.target].ex
            /\ mappings'[e.id].localPath = e.target
            /\ mappings'[e.id].lastKnownPath = e.was.localPath
            /\ mappings'[e.id].lastSyncedHash = recoveryHashContent(vault'[e.target].c)
            /\ persisted'[e.id] = mappings'[e.id]]_vars

\* a relink that changed all three fields of a mapping that had been renamed
C17_Witness ==
  /\ lastAct.op = "reconcile"
  /\ \E i \in DOMAIN lastAct.log :
       LET e == lastAct.log[i] IN
       /\ e.target # NoPath /\ e.id \in DOMAIN mappings
       /\ e.was.lastKnownPath # e.was.localPath
       /\ e.target # e.was.localPath
       /\ mappings[e.id].lastKnownPath = e.was.localPath
       /\ mappings[e.id].lastSyncedHash # e.was.lastSyncedHash
       /\ mappings[e.id].lastSyncedHash = recoveryHashContent(vault[e.target].c)

\* the files of vault v, of any extension, with the basename of path
SameBasename(v, path) == {p \in Paths : v[p].ex /\ FileBasename(p) = getBasename(path)}

\* the basename strategy relinked the orphan of entry e to the one file of S,
\* and no other strategy ran
RelinkedByBasename(e, S) ==
  /\ e.how = "basename" /\ e.tried = <<"basename">>
  /\ S = {e.target}

\* C29 as stated, over the files of every extension: an orphan is relinked by
\* the basename strategy exactly when one file of the vault has the basename of
\* its lastKnownPath, and then to that file.
C29_BasenameAnyFile ==
  [][Returned("reconcile") =>
       \A i \in DOMAIN lastAct'.log :
         LET e == lastAct'.log[i]
             S == SameBasename(e.seen, e.was.lastKnownPath)
         IN IF Cardinality(S) = 1 THEN RelinkedByBasename(e, S) ELSE e.how # "basename"]_vars

\* C29, over the markdown files: when exactly one markdown file has the basename
\* of lastKnownPath the orphan is relinked to it by the basename strategy alone,
\* whatever the content of the file (no other strategy runs, and the mapping
\* gets the path of the file); with none or several the basename strategy
\* relinks nothing.
C29_BasenameMarkdown ==
  [][Returned("reconcile") =>
       \A i \in DOMAIN lastAct'.log :
         LET e == lastAct'.log[i]
             S == {p \in SameBasename(e.seen, e.was.lastKnownPath) : FileExtension(p) = "md"}
         IN IF Cardinality(S) = 1
            THEN /\ RelinkedByBasename(e, S)
                 /\ i = Len(lastAct'.log) => mappings'[e.id].localPath = e.target
            ELSE e.how # "basename"]_vars

\* a reconcile that relinked an orphan by its basename to a file whose content
\* matches neither the hash of the mapping nor the similarity threshold
C29_Witness ==
  /\ lastAct.op = "reconcile"
  /\ \E i \in DOMAIN lastAct.log :
       LET e == lastAct.log[i] IN
       /\ e.how = "basename" /\ e.tried = <<"basename">>
       /\ ~ContentMatches(e.seen[e.target].c, e.was)
       /\ Truthy(e.was.lastSyncedHash)
       /\ e.was.localPath # e.target

\* the markdown files of the vault entry e saw with the basename of its mapping
MdCandidates(e) == {p \in SameBasename(e.seen, e.was.lastKnownPath) : FileExtension(p) = "md"}

----------------------------------------------------------------------------
(* Claims about the sync controller *)

\* nothing of a share has happened, then one more effect at each step
Staircase ==
  LET no == [mapped |-> FALSE, tagged |-> FALSE, stored |-> FALSE, listening |-> FALSE,
             held |-> FALSE]
  IN << no,
        [no EXCEPT !.mapped = TRUE],
        [no EXCEPT !.mapped = TRUE, !.tagged = TRUE],
        [no EXCEPT !.mapped = TRUE, !.tagged = TRUE, !.stored = TRUE],
        [no EXCEPT !.mapped = TRUE, !.tagged = TRUE, !.stored = TRUE, !.listening = TRUE],
        [no EXCEPT !.mapped = TRUE, !.tagged = TRUE, !.stored = TRUE, !.listening = TRUE,
                   !.held = TRUE] >>

\* C18: a share that succeeds creates the mapping, then embeds the tag, then
\* writes the content to the external store, then subscribes, then keeps the
\* handle (seen step by step whenever the documentId is new); when it returns
\* the mapping exists and a live listener's handle is kept for the documentId,
\* and the store holds the tagged content.
C18_ShareOrder ==
  [][(Returned("share") /\ lastAct'.result = "ok") =>
       LET id == lastAct'.id
           g == lastAct'.log
       IN /\ Len(g) = 6
          /\ g[1] = Staircase[1] => g = Staircase
          /\ \A i \in 1..5 :
               /\ g[i].mapped => g[i + 1].mapped
               /\ g[i].tagged => g[i + 1].tagged
               /\ g[i].stored => g[i + 1].stored
          /\ g[6] = Staircase[6]
          /\ id \in DOMAIN mappings' /\ mappings'[id].localPath = lastAct'.path
          /\ \E x \in subs' : x.id = id /\ x.cur /\ x.held /\ x.path = lastAct'.path
          /\ store'[ContentKey(mappings'[id].teamId, id)] = vault'[lastAct'.path].c]_vars

\* a share of a new documentId returned while another listener exists
C18_Witness ==
  /\ lastAct.op = "share" /\ lastAct.result = "ok"
  /\ lastAct.log = Staircase
  /\ lastAct.id \in DOMAIN mappings
  /\ \E x \in subs : x.id = lastAct.id /\ x.held
  /\ \E x \in subs : x.id # lastAct.id

\* C19: a remote notification for a mapped documentId whose file exists, with
\* content that differs from the file: the path is in the ignore set when the
\* file is overwritten, the file then holds the received content, and
\* lastSyncedHash is then set to the hash of the received content. With equal
\* content the file, the ignore set and the mapping table stay as they are.
C19_RemoteApply ==
  [][(Returned("remote") /\ lastAct'.id \in DOMAIN mappings /\ vault[lastAct'.path].ex) =>
       LET id == lastAct'.id
           path == lastAct'.path
           c == lastAct'.content
           g == lastAct'.log
       IN IF c # vault[path].c
          THEN /\ lastAct'.result = "applied"
               /\ Len(g) = 4
               /\ g[2].flagged /\ ~g[2].written
               /\ g[3].flagged /\ g[3].written
               /\ g[4].flagged /\ g[4].written /\ g[4].hashed
               /\ g[3].hashed => g[1].hashed
               /\ path \in ignoreNextChange'
               /\ vault'[path] = File(c)
               /\ mappings'[id] = [mappings[id] EXCEPT !.lastSyncedHash = hashContent(c)]
          ELSE /\ lastAct'.result = "same"
               /\ vault' = vault
               /\ ignoreNextChange' = ignoreNextChange
               /\ StoreUnchanged]_vars

\* a notification was applied to a file whose path was not flagged and whose
\* mapping had another hash
C19_Witness ==
  /\ lastAct.op = "remote" /\ lastAct.result = "applied"
  /\ ~lastAct.log[1].flagged /\ ~lastAct.log[1].hashed
  /\ lastAct.path \in ignoreNextChange
  /\ lastAct.id \in DOMAIN mappings
  /\ mappings[lastAct.id].lastSyncedHash = hashContent(lastAct.content)

\* C20: unshare of a mapped file unsubscribes and discards the handle, then
\* removes the tag, then removes the mapping; when it returns no mapping is
\* found for the path or for the id, no listener is registered for the id and
\* the file carries no tag of the id. Unshare of an unmapped file changes
\* nothing.
C20_Unshare ==
  [][Returned("unshare") =>
       LET path == lastAct'.path
           id == findMappingByPath(mappings, mapOrder, path)
           g == lastAct'.log
       IN IF id # NoId
          THEN /\ lastAct'.result = "ok" /\ lastAct'.id = id
               /\ Len(g) = 4
               /\ g[2].unsubscribed /\ ~g[2].unmapped
               /\ g[3].unsubscribed /\ g[3].untagged /\ ~g[3].unmapped
               /\ g[4].unsubscribed /\ g[4].untagged /\ g[4].unmapped
               /\ findMappingByPath(mappings', mapOrder', path) = NoId
               /\ id \notin DOMAIN mappings'
               /\ \A s \in subs' : s.id # id
          ELSE /\ lastAct'.result = "not shared"
               /\ UNCHANGED <<ksVars, clock, vault, storeVars, orchVars, editorBuf, store, subs,
                              pendingModify, returned, burst>>]_vars

\* C22: every remote-applied write to a path arms one suppression of its own,
\* so that k writes suppress k later local events: the path is not flagged
\* already when the write is applied (a flag that is still set would be shared
\* by both writes and consumed by the first local event alone), and a local
\* event that is consumed clears the flag.
C22_OneEventPerWrite ==
  [][/\ (Returned("remote") /\ lastAct'.result = "applied") => ~lastAct'.log[1].flagged
     /\ (lastAct'.result = "consumed" /\ (Returned("modifyEvent") \/ Returned("editorChange")))
          => lastAct'.path \in ignoreNextChange /\ lastAct'.path \notin ignoreNextChange']_vars

\* C23: a delete event for a mapped path leaves the mapping table as it is,
\* record for record, and does not call the save hook; the mapping is still in
\* the table, orphaned, for the recovery to find.
C23_DeleteKeepsMapping ==
  [][Returned("delete") =>
       /\ StoreUnchanged
       /\ lastAct'.id # NoId
            => /\ lastAct'.id \in DOMAIN mappings'
               /\ mappings'[lastAct'.id].localPath = lastAct'.path
               /\ ~vault'[lastAct'.path].ex]_vars

\* the file of a mapping that had been synced was deleted
C23_Witness ==
  /\ lastAct.op = "delete" /\ lastAct.id \in DOMAIN mappings
  /\ ~vault[mappings[lastAct.id].localPath].ex
  /\ persisted = mappings
  /\ \E s \in subs : s.id = lastAct.id

\* the timers without the path their file object now has
TimerKeys(ts) == {[t EXCEPT !.file = NoPath] : t \in ts}

\* C24: a rename event whose old path has a mapping invokes updateMapping for
\* that mapping and nothing else: the other mappings, lastSyncedHash, the
\* external store, the ignore set and the timers with their keys stay as they
\* are. A rename whose old path has no mapping changes nothing.
C24_RenameOnlyUpdatesPath ==
  [][Returned("rename") =>
       /\ store' = store
       /\ ignoreNextChange' = ignoreNextChange
       /\ debounceTimers' = debounceTimers
       /\ TimerKeys(timers') = TimerKeys(timers)
       /\ IF lastAct'.result = "moved"
          THEN /\ lastAct'.id \in DOMAIN mappings
               /\ mappings' = [mappings EXCEPT ![lastAct'.id] =
                                 [@ EXCEPT !.lastKnownPath = mappings[lastAct'.id].localPath,
                                           !.localPath = lastAct'.path]]
               /\ mappings'[lastAct'.id].lastSyncedHash = mappings[lastAct'.id].lastSyncedHash
               /\ mapOrder' = mapOrder
               /\ lastAct'.saved /\ persisted' = mappings'
          ELSE StoreUnchanged]_vars

\* the file of a mapping was renamed while a timer was pending for it
C24_Witness ==
  /\ lastAct.op = "rename" /\ lastAct.result = "moved"
  /\ mappings[lastAct.id].localPath = lastAct.path
  /\ \E t \in timers : t.file = lastAct.path /\ t.key # lastAct.path
  /\ DOMAIN debounceTimers # {}

\* C26: updateLastSyncedHash of a documentId the table does not hold raises no
\* error, leaves the table as it was and does not call the save hook; of a
\* documentId the table holds it changes the lastSyncedHash of that mapping and
\* nothing else of the table, and calls the save hook.
C26_UpdateHash ==
  [][Returned("updateHash") =>
       IF lastAct'.id \notin DOMAIN mappings
       THEN StoreUnchanged /\ ~lastAct'.threw
       ELSE /\ \E c \in StoreContents :
                 mappings' = [mappings EXCEPT ![lastAct'.id].lastSyncedHash = hashContent(c)]
            /\ mapOrder' = mapOrder
            /\ \A d \in DOMAIN settingsMappings \ {lastAct'.id} :
                 d \in DOMAIN settingsMappings' /\ settingsMappings'[d] = settingsMappings[d]
            /\ settingsMappings'[lastAct'.id] = mappings'[lastAct'.id]
            /\ lastAct'.saved]_vars

C26_Witness ==
  /\ lastAct.op = "updateHash" /\ lastAct.id \notin DOMAIN mappings
  /\ ~lastAct.saved /\ ~lastAct.threw /\ ~lastAct.io
  /\ mappings # EmptyTable /\ persisted = mappings

\* C27: removeMapping(documentId) leaves a table without documentId in which
\* every other mapping is as it was; it raises no error when documentId is
\* absent (unless saveData itself rejects), and removing the same documentId
\* once more leaves the table equal to the table after the first removal.
C27_RemoveIdempotent ==
  [][Returned("remove") =>
       LET id == lastAct'.id
           once == removeMapping(DbIo(lastAct'.io), id)
           twice == removeMapping(once, id)
       IN /\ mappings' = once.maps /\ mapOrder' = once.order /\ settingsMappings' = once.sett
          /\ id \notin DOMAIN mappings'
          /\ DOMAIN mappings' = (DOMAIN mappings) \ {id}
          /\ \A d \in DOMAIN mappings' : mappings'[d] = mappings[d]
          /\ mapOrder' = OrderDrop(mapOrder, id)
          /\ lastAct'.io => ~lastAct'.threw
          /\ twice.maps = once.maps /\ twice.order = once.order /\ twice.sett = once.sett
          /\ twice.threw = once.threw]_vars

C27_Witness ==
  /\ lastAct.op = "remove" /\ lastAct.id \notin DOMAIN mappings
  /\ lastAct.io /\ ~lastAct.threw /\ lastAct.saved
  /\ steps = 2 /\ Cardinality(DOMAIN mappings) = 1 /\ persisted = mappings

FlushFailed == Returned("fire") /\ lastAct'.result \in {"caught", "read failed"}

\* C25: when the flush of a fired timer fails, the error is caught (and logged)
\* by the orchestrator, the edit is dropped (nothing is written to the store and
\* nothing is rescheduled), and no timer remains pending for the path.
C25_FlushFailureCaught ==
  [][FlushFailed =>
       /\ lastAct'.result = "caught"
       /\ store' = store
       /\ ~\E u \in timers' : u.key = lastAct'.path]_vars

\* the part of C25 the code keeps: whatever the failure, the edit is dropped and
\* no timer remains for the path
C25_FailedFlushDropped ==
  [][FlushFailed =>
       /\ store' = store
       /\ timers' \subseteq timers
       /\ ~\E u \in timers' : u.key = lastAct'.path]_vars

\* C33: no two pending timers are for the same file; an edit that is debounced
\* leaves exactly one timer for its path, a new one, and the timer it replaced
\* is gone; and the timer that fires leaves no entry in debounceTimers.
C33_OneTimerPerPath ==
  [][/\ \A t1 \in timers', t2 \in timers' : t1.file = t2.file => t1 = t2
     /\ (lastAct'.result = "debounced" /\ steps' # steps)
          => /\ \E t \in timers' \ timers : t.file = lastAct'.path
             /\ \A u \in timers : u.file = lastAct'.path => u \notin timers'
     /\ Returned("fire")
          => \A t \in timers \ timers' :
               \A k \in DOMAIN debounceTimers' : debounceTimers'[k] # t.tid]_vars

\* C34: an event for the file at one path (a modify event, an edit, the
\* consumption of the flag) leaves the pending timers of the mapped files at
\* other paths pending, and a firing ends the one timer that fired.
C34_PathsIndependent ==
  [][/\ \A t \in timers :
          (/\ steps' # steps
           /\ lastAct'.op \in {"modifyEvent", "localModify", "editorChange"}
           /\ t.file # lastAct'.path /\ Mapped(t.file))
          => t \in timers'
     /\ Returned("fire") => \E t \in timers : timers' = timers \ {t}]_vars

\* the steps of SpecFlush that take one pending timer away are the firings
C36_OnlyFiringRemoves ==
  [][TimerFires => (lastAct'.op = "fire" /\ steps' = steps)]_vars

----------------------------------------------------------------------------
(* Claims about the start of the plugin *)

----------------------------------------------------------------------------
(* Claims about the connection to the sync server *)

\* C28: when initialize() succeeds after an earlier successful initialize()
\* followed by shutdown(), every callback registered with onReconnect is
\* called, in the order of registration.
C28_ReconnectNotifies ==
  [][(/\ Returned("initialize") /\ lastAct'.result = "ready"
      /\ everReady /\ ~keepsyncService.initialized)
     => lastAct'.log = keepsyncService.onReconnectCallbacks]_vars

----------------------------------------------------------------------------
(* Claims about the settings tab *)

\* C31: every documentId with a listener registered at the external store has
\* a mapping in the table (a mapping is removed only after its listener was
\* unsubscribed).
C31_ListenersHaveMappings == \A s \in subs : s.id \in DOMAIN mappings

----------------------------------------------------------------------------
(* Claims about the tag in the metadata block *)

\* C32: removing the tag from a file right after it was inserted gives the
\* file the content it had before the insertion.
C32_TagRoundTrip ==
  [][(Returned("removeTag") /\ lastAct.op = "addTag") => vault'[TodoMd].c = lastAct.content]_vars

----------------------------------------------------------------------------
(* Claims about a remote write that fails *)

\* C37: when the overwrite of the local file with remote content fails after
\* the path was marked, the mark stays and the file and the hash are as they
\* were; nothing but a change event of that path takes a mark away; and the
\* change event of a mapped path that is marked is consumed: it starts no
\* timer and pushes nothing.
C37_FailedWriteLeavesFlag ==
  [][/\ (Returned("remote") /\ lastAct'.result = "write failed")
          => /\ lastAct'.path \in ignoreNextChange'
             /\ vault' = vault /\ mappings' = mappings /\ timers' = timers
     /\ \A p \in ignoreNextChange \ ignoreNextChange' :
          /\ steps' # steps
          /\ lastAct'.op \in {"modifyEvent", "localModify", "editorChange"}
          /\ lastAct'.path = p /\ lastAct'.result = "consumed"
     /\ (/\ steps' # steps
         /\ lastAct'.op \in {"modifyEvent", "localModify", "editorChange"}
         /\ lastAct'.path \in ignoreNextChange /\ Mapped(lastAct'.path))
          => /\ lastAct'.result = "consumed"
             /\ lastAct'.path \notin ignoreNextChange'
             /\ timers' = timers /\ debounceTimers' = debounceTimers
             /\ store' = store /\ mappings' = mappings]_vars

\* a local edit made after a failed remote write has been consumed: the file
\* holds the edit, no timer is pending and the store still holds the remote
\* content
C37_Witness ==
  /\ lastAct.op = "localModify" /\ lastAct.result = "consumed"
  /\ timers = {} /\ ignoreNextChange = {}
  /\ vault[TodoMd].c = Xyz
  /\ \E k \in DOMAIN store : store[k] = Abc

----------------------------------------------------------------------------
(* Claims about the two hash functions *)

\* C38: the hash of recovery and the hash of the mapping store are one
\* function: whenever the file of a mapping holds the content whose hash
\* either of them left in lastSyncedHash, that file is an exact hash match
\* for the mapping in findByContent, and the store's hash of it is the one
\* recorded.
C38_SyncedContentMatchesExactly ==
  \A id \in DOMAIN mappings :
    LET m == mappings[id]
        f == vault[m.localPath]
    IN (f.ex /\ HashesTo(f.c, m.lastSyncedHash))
         => /\ recoveryHashContent(f.c) = m.lastSyncedHash
            /\ hashContent(f.c) = m.lastSyncedHash

----------------------------------------------------------------------------
(* Claims about the listeners restored at the start *)

\* C39: at a restart, a mapping whose file exists is first written to the
\* store under its content key, with the content the file holds, and only
\* then gets its listener; a mapping whose file does not exist is neither
\* written nor subscribed.
C39_WriteThenListen ==
  [][Returned("restart") =>
       LET g == lastAct'.log IN
       \A i \in DOMAIN g :
         LET id == g[i].id
             m == mappings'[id]
             key == ContentKey(m.teamId, id)
         IN /\ vault'[m.localPath].ex <=> g[i].how # "no file"
            /\ g[i].how = "no file"
                 => /\ g[i].steps = << >>
                    /\ ~\E s \in subs' : s.id = id
                    /\ (key \in DOMAIN store' <=> key \in DOMAIN store)
                    /\ key \in DOMAIN store => store'[key] = store[key]
            /\ g[i].how = "ok"
                 => /\ Len(g[i].steps) = 4
                    /\ g[i].steps[2].stored /\ ~g[i].steps[2].listening
                    /\ g[i].steps[3].stored /\ g[i].steps[3].listening
                    /\ store'[key] = vault'[m.localPath].c
                    /\ \E s \in subs' : s.id = id /\ s.held
            /\ \A j \in DOMAIN g[i].steps : g[i].steps[j].listening => g[i].steps[j].stored]_vars

\* a restart that met a mapping whose file is there, written to the store, and
\* one whose file is gone, whose document in the store is as the team left it
C39_Witness ==
  /\ lastAct.op = "restart" /\ Len(lastAct.log) = 2
  /\ \E i, j \in 1..2 :
       /\ lastAct.log[i].how = "ok" /\ lastAct.log[j].how = "no file"
       /\ store[ContentKey("t1", lastAct.log[i].id)] = Abc
       /\ store[ContentKey("t1", lastAct.log[j].id)] = TeamStore[ContentKey("t1", lastAct.log[j].id)]
       /\ ~vault[mappings[lastAct.log[j].id].localPath].ex
       /\ \E s \in subs : s.id = lastAct.log[i].id
       /\ ~\E s \in subs : s.id = lastAct.log[j].id

----------------------------------------------------------------------------
(* Claims about the automatic sync *)

\* C40: whatever the interleaving of index notifications and 'sync all' runs
\* of one team, once they have ended every file auto-sync created for a
\* document is the localPath of the mapping of that document.
C40_CreatedFilesAreMapped ==
  (\A r \in Runs : autoSync.runs[r].pc = "idle")
    => \A f \in autoSync.created :
         f.id \in DOMAIN mappings /\ mappings[f.id].localPath = f.path

====
